---- MODULE Spec2Model ----
(***************************************************************************)
(* Fixture seeding (seed-all.ts) and cleanup (delete-fixtures.ts) of the    *)
(* m2-hyva-playwright repository, run against the Magento admin REST API    *)
(* through MagentoApiClient (api-client.ts), together with the tier         *)
(* selection of test-data.ts.                                               *)
(*                                                                          *)
(* The remote platform is the environment: it keeps products, customers,    *)
(* cart price rules and coupon codes, answers every request truthfully or   *)
(* with an error, and may be written by somebody else.  A run is a process  *)
(* whose position is pc[r]; every remote call of the code is one step.      *)
(*                                                                          *)
(* Strings that are pattern-matched (SKU, email, rule name) are sequences   *)
(* of tokens, so that LIKE 'TEST_%' is computed and not assumed.            *)
(***************************************************************************)
EXTENDS Integers, Sequences, FiniteSets, TLC

(***************************************************************************)
(* Bounds of the model.                                                     *)
(***************************************************************************)
\* runs the operator starts one after the other
MaxRuns == 2
\* error answers of the remote plus writes of another writer, per behaviour
MaxFaults == 2

Procs == {1, 2}
Tiers == {"A", "B", "C"}

(***************************************************************************)
(* Manifests.  The JSON files are not part of the sources at hand; the      *)
(* entries below use the ids test-data.ts looks up and the example of the   *)
(* specification.  Prices are in cents.  tier is an array, as in the JSON.  *)
(***************************************************************************)
SkuSimple == <<"TEST_", "SIMPLE_001">>
SkuOos == <<"TEST_", "OOS_001">>
SkuOld == <<"TEST_", "OLD_999">>
SkuLive == <<"LIVE_", "CHAIR_7">>
EmailBasic == <<"customer", "@qbdigital.test">>
EmailEu == <<"eu.customer", "@qbdigital.test">>
EmailLive == <<"jane", "@example.com">>
CodeTen == <<"TEST10">>
CodeFive == <<"TEST5">>
CodeLive == <<"SUMMER">>
RuleTen == <<"Test", " 10% Off">>
RuleFive == <<"Test", " 5 Fixed">>
RuleLive == <<"Summer", " Sale">>

ConventionalManifest ==
  [ products |->
      << [id |-> "simple_product_basic", sku |-> SkuSimple, name |-> "Test Simple Product",
          price |-> 1999, qty |-> 10, status |-> "enabled", tier |-> <<"A", "B", "C">>],
         [id |-> "simple_product_oos", sku |-> SkuOos, name |-> "Test Out of Stock Product",
          price |-> 2999, qty |-> 0, status |-> "disabled", tier |-> <<"B", "C">>] >>,
    customers |->
      << [id |-> "test_customer_basic", email |-> EmailBasic,
          firstname |-> "Test", lastname |-> "Customer",
          addresses |->
            << [type |-> <<"billing", ",", "shipping">>, city |-> "Leeds"],
               [type |-> <<"shipping">>, city |-> "York",
                firstname |-> "Ship", lastname |-> ""] >>,
          tier |-> <<"A", "B", "C">>],
         [id |-> "test_customer_eu", email |-> EmailEu,
          firstname |-> "Erika", lastname |-> "Muster",
          addresses |->
            << [type |-> <<"other">>, city |-> "Berlin",
                firstname |-> "E.", lastname |-> "M."],
               [type |-> <<"default_", "billing">>, city |-> "Bonn"],
               [type |-> <<"Shipping">>, city |-> "Kiel"] >>,
          tier |-> <<"C">>] >>,
    coupons |->
      << [id |-> "coupon_10_percent", code |-> CodeTen, name |-> RuleTen,
          type |-> "percentage", tier |-> <<"A", "B", "C">>],
         [id |-> "coupon_5_fixed", code |-> CodeFive, name |-> RuleFive,
          type |-> "fixed", tier |-> <<"B", "C">>] >> ]

\* tiers are cumulative by convention only: an entry may name any tiers
UnconventionalManifest ==
  [ products |->
      << [id |-> "simple_product_oos", sku |-> SkuOos, name |-> "Test Out of Stock Product",
          price |-> 2999, qty |-> 0, tier |-> <<"C", "A">>],
         [id |-> "simple_product_basic", sku |-> SkuSimple, name |-> "Test Simple Product",
          price |-> 1999, qty |-> 10, status |-> "Disabled", tier |-> <<"B">>] >>,
    customers |->
      << [id |-> "test_customer_basic", email |-> EmailBasic,
          firstname |-> "Test", lastname |-> "Customer", tier |-> <<"A">>] >>,
    coupons |->
      << [id |-> "coupon_10_percent", code |-> CodeTen, name |-> RuleTen,
          type |-> "percentage", tier |-> <<"B", "A">>] >> ]

Manifests == {ConventionalManifest, UnconventionalManifest}

(***************************************************************************)
(* The remote platform at the start: empty, or already holding records.     *)
(* The used one holds a product with a manifest SKU and another price, a    *)
(* test product no manifest names, records that are no test data, and a     *)
(* rule with its coupon code.                                               *)
(***************************************************************************)
EmptyRemote ==
  [products |-> {}, customers |-> {}, rules |-> {}, coupons |-> {}, nextId |-> 1]

UsedRemote ==
  [ products |-> { [id |-> 1, sku |-> SkuSimple, price |-> 500],
                   [id |-> 2, sku |-> SkuOld, price |-> 100],
                   [id |-> 3, sku |-> SkuLive, price |-> 7000] },
    customers |-> { [id |-> 4, email |-> EmailBasic],
                    [id |-> 5, email |-> EmailLive] },
    rules |-> { [rule_id |-> 6, name |-> RuleTen],
                [rule_id |-> 7, name |-> RuleLive] },
    coupons |-> { [coupon_id |-> 8, code |-> CodeTen, rule_id |-> 6],
                  [coupon_id |-> 9, code |-> CodeLive, rule_id |-> 7] },
    nextId |-> 10 ]

Remotes == {EmptyRemote, UsedRemote}

(***************************************************************************)
(* The environment of a script: process.env.X is undefined when unset; an   *)
(* empty string is as falsy as undefined.                                   *)
(***************************************************************************)
Unset == "undefined"
EnvValues == {Unset, "", "set"}
Envs == [BASE_URL : EnvValues, url : EnvValues,
         ADMIN_USER : EnvValues, ADMIN_PASS : EnvValues]
DefaultEnv == [BASE_URL |-> "set", url |-> Unset,
               ADMIN_USER |-> "set", ADMIN_PASS |-> "set"]

VARIABLES
  manifest,    \* the three manifests, as loaded
  env,         \* process.env of the scripts
  returned,    \* what the last call of a test into test-data.ts returned
  remote,      \* the platform's products, customers, rules and coupons
  faults,      \* error answers and foreign writes so far
  interfered,  \* another writer has changed the remote
  pc,          \* per process: position in the script
  args,        \* per process: script, tier, dryRun
  runNo,       \* per process: runs started
  token,       \* per process: the client holds a token
  sel,         \* per process: the filtered manifests of the seed run
  idx,         \* per process: loop index in the current kind
  ruleId,      \* per process: rule_id returned to createCouponRule
  found,       \* per process: search results of the cleanup run, by kind
  stats,       \* per process: CleanupStats
  outcomes,    \* per process: seed outcomes in order, by kind
  log,         \* per process: the requests of the run, in order
  snap,        \* per process: the remote when the run started
  prev,        \* per process: what the previous run ended with
  invoked,     \* per process: the client method a test called, and its requests to send
  checkout     \* the checkout page object and the page it drives

vars == << manifest, env, returned, remote, faults, interfered, pc, args, runNo, token, sel,
           idx, ruleId, found, stats, outcomes, log, snap, prev, invoked, checkout >>

(***************************************************************************)
(* Helpers.                                                                 *)
(***************************************************************************)
Range(s) == {s[i] : i \in 1..Len(s)}

\* a plausible slip: the kept entries collected newest first
SelectSeq2_newestFirst(s, keep) ==
  LET kept == SelectSeq(s, LAMBDA x : x \in keep)
  IN  [i \in 1..Len(kept) |-> kept[Len(kept) + 1 - i]]

RECURSIVE SelectSeq2(_, _)
\* Array.prototype.filter with the predicate given as a set of kept entries
SelectSeq2(s, keep) ==
  IF s = <<>> THEN <<>>
  ELSE (IF Head(s) \in keep THEN <<Head(s)>> ELSE <<>>) \o SelectSeq2(Tail(s), keep)

RECURSIVE SortByKey(_, _)
\* the items of a search answer, in id order
SortByKey(S, k) ==
  IF S = {} THEN <<>>
  ELSE LET m == CHOOSE x \in S : \A y \in S : k[x] <= k[y]
       IN  <<m>> \o SortByKey(S \ {m}, k)

RECURSIVE Like(_, _)
\* the platform's 'like' condition, "%" matching any run of tokens
Like(pat, s) ==
  IF pat = <<>> THEN s = <<>>
  ELSE IF Head(pat) = "%"
       THEN \E k \in 0..Len(s) : Like(Tail(pat), SubSeq(s, k + 1, Len(s)))
       ELSE s # <<>> /\ Head(s) = Head(pat) /\ Like(Tail(pat), Tail(s))

CanFault == faults < MaxFaults
Fault == IF CanFault THEN {"err"} ELSE {}

NoSel == [products |-> <<>>, customers |-> <<>>, coupons |-> <<>>]
NoStat == [found |-> 0, deleted |-> 0, failed |-> 0]
NoStats == [products |-> NoStat, customers |-> NoStat, coupons |-> NoStat]
NoArgs == [script |-> "none", tier |-> "B", dryRun |-> FALSE, argv |-> <<>>]
NoCheckout == [pc |-> "idle", given |-> <<>>, shippingMethod |-> "", paymentMethod |-> "",
               steps |-> <<>>, shipping |-> "none", payment |-> "none",
               placed |-> FALSE, verified |-> FALSE]
NoCall == [method |-> "none", todo |-> <<>>, threw |-> FALSE]
NoBefore == [args |-> NoArgs, pc |-> "idle", log |-> <<>>]
NoPrev == [args |-> NoArgs, pc |-> "idle", outcomes |-> NoSel,
           stats |-> NoStats, found |-> NoSel, log |-> <<>>, before |-> NoBefore]

(***************************************************************************)
(* Tier selection.                                                          *)
(***************************************************************************)
\* a plausible slip: the manifest array reversed in place before it is
\* read, to take the newest entries first
afterRead_reversed(arr) == [i \in 1..Len(arr) |-> arr[Len(arr) + 1 - i]]

\* the manifest array after filter, find or includes was called on it:
\* they return new values and leave the array and its entries as they are
afterRead(arr) == arr

RECURSIVE Find(_, _)
\* Array.prototype.find with the predicate given as a set of entries: the
\* first match, or nothing (undefined)
Find(s, match) ==
  IF s = <<>> THEN <<>>
  ELSE IF Head(s) \in match THEN <<Head(s)>> ELSE Find(Tail(s), match)

\* Array.prototype.includes on the fixture's tier array
TierIncludes(fixture, tier) == \E i \in 1..Len(fixture.tier) : fixture.tier[i] = tier

\* test-data.ts: getAllX().filter((x) => x.tier.includes(tier))
getProductsForTier(tier) ==
  SelectSeq2(manifest.products, {p \in Range(manifest.products) : TierIncludes(p, tier)})
getCustomersForTier(tier) ==
  SelectSeq2(manifest.customers, {c \in Range(manifest.customers) : TierIncludes(c, tier)})
getCouponsForTier(tier) ==
  SelectSeq2(manifest.coupons, {c \in Range(manifest.coupons) : TierIncludes(c, tier)})

\* test-data.ts: getAllX().find((x) => x.id === id), and by natural key
getProductById(id) ==
  Find(manifest.products, {p \in Range(manifest.products) : p.id = id})
getProductBySku(sku) ==
  Find(manifest.products, {p \in Range(manifest.products) : p.sku = sku})
getCustomerById(id) ==
  Find(manifest.customers, {c \in Range(manifest.customers) : c.id = id})
testData_getCustomerByEmail(email) ==
  Find(manifest.customers, {c \in Range(manifest.customers) : c.email = email})
getCouponById(id) ==
  Find(manifest.coupons, {c \in Range(manifest.coupons) : c.id = id})
testData_getCouponByCode(code) ==
  Find(manifest.coupons, {c \in Range(manifest.coupons) : c.code = code})

\* a plausible slip: the tier array read as "the fixture's tier", its first entry
seedProducts_selectFirstTier(tier) ==
  SelectSeq2(manifest.products, {p \in Range(manifest.products) : p.tier[1] = tier})

\* seed-all.ts: the filters of seedProducts, seedCustomers and seedCoupons
seedProducts_select(tier) ==
  SelectSeq2(manifest.products, {p \in Range(manifest.products) : TierIncludes(p, tier)})
seedCustomers_select(tier) ==
  SelectSeq2(manifest.customers, {c \in Range(manifest.customers) : TierIncludes(c, tier)})
seedCoupons_select(tier) ==
  SelectSeq2(manifest.coupons, {c \in Range(manifest.coupons) : TierIncludes(c, tier)})

(***************************************************************************)
(* The platform's answers.  "ok" and "404" are truthful; "dup" is the       *)
(* rejection of a create whose natural key is taken (its message says       *)
(* 'already exists', which seed-all.ts looks for); "err" is any other       *)
(* failure (5xx, timeout, network).                                         *)
(***************************************************************************)
hasSku(sku) == \E p \in remote.products : p.sku = sku
hasEmail(email) == \E c \in remote.customers : c.email = email
hasCode(code) == \E c \in remote.coupons : c.code = code

Call(op, key, res, rid) == [op |-> op, key |-> key, res |-> res, rule_id |-> rid]
Logged(r, call) == [log EXCEPT ![r] = Append(@, call)]
Charged(res) == IF res = "err" THEN faults + 1 ELSE faults

\* GET /products/:sku
getProduct_answers(sku) == {IF hasSku(sku) THEN "ok" ELSE "404"} \cup Fault
\* POST /products
createProduct_answers(sku) == {IF hasSku(sku) THEN "dup" ELSE "ok"} \cup Fault
\* GET /customers/search, email eq
getCustomerByEmail_answers(email) == {IF hasEmail(email) THEN "ok" ELSE "empty"} \cup Fault
\* POST /customers
createCustomer_answers(email) == {IF hasEmail(email) THEN "dup" ELSE "ok"} \cup Fault
\* GET /coupons/search, code eq
getCouponByCode_answers(code) == {IF hasCode(code) THEN "ok" ELSE "empty"} \cup Fault
\* POST /salesRules: rule names are no key of the platform
postSalesRules_answers == {"ok"} \cup Fault
\* POST /coupons
postCoupons_answers(code) == {IF hasCode(code) THEN "dup" ELSE "ok"} \cup Fault
\* DELETE /products/:sku, /customers/:id, /salesRules/:id
deleteProduct_answers(sku) == {IF hasSku(sku) THEN "ok" ELSE "404"} \cup Fault
deleteCustomer_answers(id) ==
  {IF \E c \in remote.customers : c.id = id THEN "ok" ELSE "404"} \cup Fault
deleteSalesRule_answers(id) ==
  {IF \E x \in remote.rules : x.rule_id = id THEN "ok" ELSE "404"} \cup Fault

(***************************************************************************)
(* MagentoApiClient: what each method returns to its caller.                *)
(***************************************************************************)
\* a plausible slip: getProduct written as the two searches are
getProduct_swallowing(res) == IF res = "ok" THEN "existing" ELSE "null"

\* getProduct: the product, null on 404, throws otherwise
getProduct(res) == CASE res = "ok" -> "existing" [] res = "404" -> "null" [] OTHER -> "throw"
\* getCustomerByEmail, getCouponByCode: items[0], null when empty, null on any error
getCustomerByEmail(res) == IF res = "ok" THEN "existing" ELSE "null"
getCouponByCode(res) == IF res = "ok" THEN "existing" ELSE "null"
\* deleteProduct, deleteCustomer, deleteSalesRule: true, false on 404, throws otherwise
deleteResult(res) == CASE res = "ok" -> "true" [] res = "404" -> "false" [] OTHER -> "throw"

\* error.response?.data?.message of a rejected create
messageSaysAlreadyExists(res) == res = "dup"

(***************************************************************************)
(* Init.                                                                    *)
(***************************************************************************)
InitOf(envs, manifests) ==
  /\ env \in envs
  /\ manifest \in manifests
  /\ returned = <<>>
  /\ invoked = [r \in Procs |-> NoCall]
  /\ checkout = NoCheckout
  /\ remote \in Remotes
  /\ faults = 0
  /\ interfered = FALSE
  /\ pc = [r \in Procs |-> "idle"]
  /\ args = [r \in Procs |-> NoArgs]
  /\ runNo = [r \in Procs |-> 0]
  /\ token = [r \in Procs |-> FALSE]
  /\ sel = [r \in Procs |-> NoSel]
  /\ idx = [r \in Procs |-> 1]
  /\ ruleId = [r \in Procs |-> 0]
  /\ found = [r \in Procs |-> NoSel]
  /\ stats = [r \in Procs |-> NoStats]
  /\ outcomes = [r \in Procs |-> NoSel]
  /\ log = [r \in Procs |-> <<>>]
  /\ snap = [r \in Procs |-> EmptyRemote]
  /\ prev = [r \in Procs |-> NoPrev]

\* a configured environment
InitWith(envs) == InitOf(envs, Manifests)
Init == InitWith({DefaultEnv})

(***************************************************************************)
(* Starting a script: the process is new, the previous run is kept for      *)
(* comparison.                                                              *)
(***************************************************************************)
\* a plausible slip: a lock taken for granted, one script at a time
Idle_exclusive(r) == \A s \in Procs : pc[s] \in {"idle", "done", "exit", "rejected"}

\* a script may be started when the operator's previous one has ended;
\* what other processes do is not looked at
Idle(r) == pc[r] \in {"idle", "done", "exit", "rejected"}

\* !process.env.X
Falsy(v) == v \in {Unset, ""}
\* a || b
OrElse(a, b) == IF Falsy(a) THEN b ELSE a

\* a plausible slip: the credentials joined with && as the URLs are
validateEnvironment_bothMissing(e) ==
  IF Falsy(e.BASE_URL) /\ Falsy(e.url) THEN "exit"
  ELSE IF Falsy(e.ADMIN_USER) /\ Falsy(e.ADMIN_PASS) THEN "exit"
  ELSE "ok"

\* "Validate environment" of seedAll and cleanupAll: process.exit(1) when
\* the base URL or a credential is missing
validateEnvironment(e) ==
  IF Falsy(e.BASE_URL) /\ Falsy(e.url) THEN "exit"
  ELSE IF Falsy(e.ADMIN_USER) \/ Falsy(e.ADMIN_PASS) THEN "exit"
  ELSE "ok"

\* createApiClient(): throws without a base URL; the throw is outside the
\* try block of the script, so it rejects the promise of seedAll/cleanupAll
createApiClient(e) ==
  LET baseUrl == OrElse(e.BASE_URL, OrElse(e.url, ""))
  IN  IF Falsy(baseUrl) THEN "throw" ELSE "client"

\* the status the process ends with: process.exit(1), or 0 when the
\* script's promise settles
exitStatus(r) ==
  CASE pc[r] = "exit" -> 1
    [] pc[r] \in {"done", "rejected"} -> 0
    [] OTHER -> -1

BeginWithin(r, a, maxRuns) ==
  /\ Idle(r)
  /\ runNo[r] < maxRuns
  /\ runNo' = [runNo EXCEPT ![r] = @ + 1]
  /\ prev' = [prev EXCEPT ![r] = [args |-> args[r], pc |-> pc[r],
                                  outcomes |-> outcomes[r], stats |-> stats[r],
                                  found |-> found[r], log |-> log[r],
                                  before |-> [args |-> prev[r].args,
                                              pc |-> prev[r].pc,
                                              log |-> prev[r].log]]]
  /\ args' = [args EXCEPT ![r] = a]
  /\ pc' = [pc EXCEPT ![r] =
              IF validateEnvironment(env) = "exit" THEN "exit"
              ELSE IF createApiClient(env) = "throw" THEN "rejected"
              ELSE "auth"]
  /\ token' = [token EXCEPT ![r] = FALSE]
  /\ sel' = [sel EXCEPT ![r] = NoSel]
  /\ idx' = [idx EXCEPT ![r] = 1]
  /\ ruleId' = [ruleId EXCEPT ![r] = 0]
  /\ found' = [found EXCEPT ![r] = NoSel]
  /\ stats' = [stats EXCEPT ![r] = NoStats]
  /\ outcomes' = [outcomes EXCEPT ![r] = NoSel]
  /\ log' = [log EXCEPT ![r] = <<>>]
  /\ snap' = [snap EXCEPT ![r] = remote]
  /\ UNCHANGED << manifest, env, invoked, checkout, returned, remote, faults, interfered >>

Begin(r, a) == BeginWithin(r, a, MaxRuns)

\* String.prototype.toUpperCase, a string being the sequence of its characters
UpperCaseOf(c) ==
  CASE c = "a" -> "A" [] c = "b" -> "B" [] c = "c" -> "C" [] c = "d" -> "D"
    [] OTHER -> c

\* a plausible slip: the value compared as it was typed
toUpperCase_asTyped(str) == str

toUpperCase(str) == [i \in 1..Len(str) |-> UpperCaseOf(str[i])]

\* x?.toUpperCase() of a value that may be undefined
Undefined == <<"undefined">>
optionalToUpperCase(x) == IF x = Undefined THEN Undefined ELSE toUpperCase(x)

\* ['A', 'B', 'C'].includes(x)
TierNames == {<<"A">>, <<"B">>, <<"C">>}

\* seed-all.ts: tierArg = process.argv[2]?.toUpperCase();
\* tier = ['A', 'B', 'C'].includes(tierArg || '') ? tierArg : 'B'
\* (argv here is process.argv from its third entry on)
tierOfArgv(argv) ==
  LET tierArg == optionalToUpperCase(IF Len(argv) >= 1 THEN argv[1] ELSE Undefined)
      orEmpty == IF tierArg = Undefined \/ tierArg = <<>> THEN <<>> ELSE tierArg
  IN  IF orEmpty \in TierNames THEN tierArg[1] ELSE "B"

\* test-data.ts: tier = process.env.TEST_TIER?.toUpperCase();
\* ['A', 'B', 'C'].includes(tier) ? tier : 'B'
getCurrentTier(testTier) ==
  LET tier == optionalToUpperCase(testTier)
  IN  IF tier \in TierNames THEN tier[1] ELSE "B"

seedAllWith(r, argv, maxRuns) ==
  BeginWithin(r, [script |-> "seed", tier |-> tierOfArgv(argv), dryRun |-> FALSE,
                  argv |-> argv], maxRuns)

\* seed-all A|B|C
seedAll(r) ==
  \E argv \in {<< <<"A">> >>, << <<"B">> >>, << <<"C">> >>} : seedAllWith(r, argv, MaxRuns)

\* process.argv.includes('--dry') || process.argv.includes('-d')
dryRunOf(argv) == \E i \in 1..Len(argv) : argv[i] \in {"--dry", "-d"}

\* delete-fixtures [--dry|-d]
cleanupAll(r) ==
  \E argv \in {<<>>, <<"--dry">>, <<"-d">>} :
    Begin(r, [script |-> "cleanup", tier |-> "B", dryRun |-> dryRunOf(argv),
              argv |-> argv])

\* a plausible slip: authenticate() logging its error without rethrowing
afterAuthenticate_swallowed(res, script) ==
  IF script = "seed" THEN "seedProducts" ELSE "deleteProducts"

\* authenticate() rethrows; the catch block of the script calls
\* process.exit(1); otherwise the script goes on to its first kind
afterAuthenticate(res, script) ==
  IF res # "ok" THEN "exit"
  ELSE IF script = "seed" THEN "seedProducts"
  ELSE "deleteProducts"

\* client.authenticate(): POST /integration/admin/token; a failure ends the process
authenticate(r) ==
  /\ pc[r] = "auth"
  /\ \E res \in {"ok"} \cup Fault :
       /\ log' = Logged(r, Call("POST /integration/admin/token", <<>>, res, 0))
       /\ faults' = Charged(res)
       /\ token' = [token EXCEPT ![r] = (res = "ok")]
       /\ pc' = [pc EXCEPT ![r] = afterAuthenticate(res, args[r].script)]
  /\ UNCHANGED << manifest, env, invoked, checkout, returned, remote, interfered, args, runNo, sel, idx, ruleId,
                  found, stats, outcomes, snap, prev >>

(***************************************************************************)
(* seed-all.ts.  Outcomes are what the run prints for a fixture:            *)
(* "exists" (already exists), "created", "failed".                          *)
(***************************************************************************)
Outcome(key, o) == [key |-> key, outcome |-> o]
More(r, list) == idx[r] < Len(list)
Step(r, list) == [idx EXCEPT ![r] = IF More(r, list) THEN @ + 1 ELSE 1]

\* a plausible slip: the coupons seeded before the customers
seedAll_couponsSecond(fn) ==
  CASE fn = "seedProducts" -> "seedCoupons"
    [] fn = "seedCoupons" -> "seedCustomers"
    [] fn = "seedCustomers" -> "done"

\* await seedProducts(...); await seedCustomers(...); await seedCoupons(...):
\* what the run does when a function returned
seedAll_then(fn) ==
  CASE fn = "seedProducts" -> "seedCustomers"
    [] fn = "seedCustomers" -> "seedCoupons"
    [] fn = "seedCoupons" -> "done"

\* products: await deleteProducts(...), customers: await deleteCustomers(...),
\* coupons: await deleteCoupons(...)
cleanupAll_then(fn) ==
  CASE fn = "deleteProducts" -> "deleteCustomers"
    [] fn = "deleteCustomers" -> "deleteCoupons"
    [] fn = "deleteCoupons" -> "done"

\* a plausible slip: a retry, the fixtures of the kind taken again after a
\* failure
seedFixture_again(loopPc, nextPc, more, failed) ==
  IF failed \/ more THEN loopPc ELSE nextPc

\* a plausible slip: the error of one fixture leaves the loop and the run
seedFixture_rethrow(loopPc, nextPc, more, failed) ==
  IF failed THEN "exit" ELSE IF more THEN loopPc ELSE nextPc

\* the end of a loop body, also through its catch block: the next fixture
\* of the kind, or the next kind
seedFixture_next(loopPc, nextPc, more, failed) == IF more THEN loopPc ELSE nextPc

seedProducts_filter(r) ==
  /\ pc[r] = "seedProducts"
  /\ LET products == seedProducts_select(args[r].tier)
     IN  /\ sel' = [sel EXCEPT ![r].products = products]
         /\ pc' = [pc EXCEPT ![r] =
                     IF products = <<>> THEN seedAll_then("seedProducts") ELSE "getProduct"]
  /\ idx' = [idx EXCEPT ![r] = 1]
  /\ manifest' = [manifest EXCEPT !.products = afterRead(@)]
  /\ UNCHANGED << env, invoked, checkout, returned, remote, faults, interfered, args, runNo, token,
                  ruleId, found, stats, outcomes, log, snap, prev >>

\* existing = await client.getProduct(product.sku)
seedProducts_getProduct(r) ==
  /\ pc[r] = "getProduct"
  /\ LET products == sel[r].products
         product == products[idx[r]]
     IN  \E res \in getProduct_answers(product.sku) :
           /\ log' = Logged(r, Call("GET /products", product.sku, res, 0))
           /\ faults' = Charged(res)
           /\ IF getProduct(res) = "null"
              THEN /\ pc' = [pc EXCEPT ![r] = "createProduct"]
                   /\ UNCHANGED << idx, outcomes >>
              ELSE /\ outcomes' = [outcomes EXCEPT ![r].products =
                         Append(@, Outcome(product.sku,
                           IF getProduct(res) = "existing" THEN "exists" ELSE "failed"))]
                   /\ idx' = Step(r, products)
                   /\ pc' = [pc EXCEPT ![r] =
                         seedFixture_next("getProduct", seedAll_then("seedProducts"),
                           More(r, products), getProduct(res) = "throw")]
  /\ UNCHANGED << manifest, env, invoked, checkout, returned, remote, interfered, args, runNo, token, sel, ruleId,
                  found, stats, snap, prev >>

\* an optional property of an object: obj.name, undefined when it is not there
Has(obj, name) == name \in DOMAIN obj

\* a plausible slip: the status tested for 'enabled'
createProduct_argument_enabledOnly(product) ==
  [sku |-> product.sku, name |-> product.name, price |-> product.price,
   qty |-> product.qty,
   status |-> IF Has(product, "status") /\ product.status = "enabled" THEN 1 ELSE 2,
   visibility |-> 4]

\* the argument seedProducts hands to client.createProduct: sku, name,
\* price, qty, status: product.status === 'disabled' ? 2 : 1, visibility: 4
\* (and the two descriptions); no attributeSetId, typeId, weight, taxClassId
createProduct_argument(product) ==
  [sku |-> product.sku, name |-> product.name, price |-> product.price,
   qty |-> product.qty,
   status |-> IF Has(product, "status") /\ product.status = "disabled" THEN 2 ELSE 1,
   visibility |-> 4]

\* a plausible slip: every created product in stock
createProduct_payload_inStock(product) ==
  [sku |-> product.sku, name |-> product.name,
   attribute_set_id |-> 4, price |-> product.price, status |-> product.status,
   visibility |-> product.visibility, type_id |-> "simple",
   stock_item |-> [qty |-> product.qty, is_in_stock |-> TRUE],
   tax_class_id |-> "2"]

\* payload = { product: { sku, name, attribute_set_id: attributeSetId || 4,
\*   price, status: status ?? 1, visibility: visibility ?? 4,
\*   type_id: typeId || 'simple',
\*   extension_attributes: { stock_item: { qty, is_in_stock: qty > 0 } },
\*   custom_attributes: [{ tax_class_id: taxClassId || '2' }, ...] } }
createProduct_payload(product) ==
  [sku |-> product.sku, name |-> product.name,
   attribute_set_id |-> IF Has(product, "attributeSetId") /\ product.attributeSetId # 0
                        THEN product.attributeSetId ELSE 4,
   price |-> product.price,
   status |-> IF Has(product, "status") THEN product.status ELSE 1,
   visibility |-> IF Has(product, "visibility") THEN product.visibility ELSE 4,
   type_id |-> IF Has(product, "typeId") /\ product.typeId # ""
               THEN product.typeId ELSE "simple",
   stock_item |-> [qty |-> product.qty, is_in_stock |-> product.qty > 0],
   tax_class_id |-> IF Has(product, "taxClassId") /\ product.taxClassId # ""
                    THEN product.taxClassId ELSE "2"]

\* this.client.post('/products', payload)
createProduct_request(product, res) ==
  [op |-> "POST /products", key |-> product.sku, res |-> res, rule_id |-> 0,
   payload |-> createProduct_payload(createProduct_argument(product))]

\* await client.createProduct({...}): POST /products
seedProducts_createProduct(r) ==
  /\ pc[r] = "createProduct"
  /\ LET products == sel[r].products
         product == products[idx[r]]
     IN  \E res \in createProduct_answers(product.sku) :
           /\ log' = Logged(r, createProduct_request(product, res))
           /\ faults' = Charged(res)
           /\ remote' = IF res = "ok"
                        THEN [remote EXCEPT
                                !.products = @ \cup {[id |-> remote.nextId,
                                   sku |-> product.sku, price |-> product.price]},
                                !.nextId = @ + 1]
                        ELSE remote
           /\ outcomes' = [outcomes EXCEPT ![r].products =
                 Append(@, Outcome(product.sku,
                   IF res = "ok" THEN "created" ELSE "failed"))]
           /\ idx' = Step(r, products)
           /\ pc' = [pc EXCEPT ![r] =
                 seedFixture_next("getProduct", seedAll_then("seedProducts"),
                   More(r, products), res # "ok")]
  /\ UNCHANGED << manifest, env, invoked, checkout, returned, interfered, args, runNo, token, sel, ruleId, found,
                  stats, snap, prev >>

seedCustomers_filter(r) ==
  /\ pc[r] = "seedCustomers"
  /\ LET customers == seedCustomers_select(args[r].tier)
     IN  /\ sel' = [sel EXCEPT ![r].customers = customers]
         /\ pc' = [pc EXCEPT ![r] =
                     IF customers = <<>> THEN seedAll_then("seedCustomers") ELSE "getCustomerByEmail"]
  /\ idx' = [idx EXCEPT ![r] = 1]
  /\ manifest' = [manifest EXCEPT !.customers = afterRead(@)]
  /\ UNCHANGED << env, invoked, checkout, returned, remote, faults, interfered, args, runNo, token,
                  ruleId, found, stats, outcomes, log, snap, prev >>

\* existing = await client.getCustomerByEmail(customer.email)
seedCustomers_getCustomerByEmail(r) ==
  /\ pc[r] = "getCustomerByEmail"
  /\ LET customers == sel[r].customers
         customer == customers[idx[r]]
     IN  \E res \in getCustomerByEmail_answers(customer.email) :
           /\ log' = Logged(r, Call("GET /customers/search", customer.email, res, 0))
           /\ faults' = Charged(res)
           /\ IF getCustomerByEmail(res) = "null"
              THEN /\ pc' = [pc EXCEPT ![r] = "createCustomer"]
                   /\ UNCHANGED << idx, outcomes >>
              ELSE /\ outcomes' = [outcomes EXCEPT ![r].customers =
                         Append(@, Outcome(customer.email, "exists"))]
                   /\ idx' = Step(r, customers)
                   /\ pc' = [pc EXCEPT ![r] =
                         seedFixture_next("getCustomerByEmail", seedAll_then("seedCustomers"),
                           More(r, customers), FALSE)]
  /\ UNCHANGED << manifest, env, invoked, checkout, returned, remote, interfered, args, runNo, token, sel, ruleId,
                  found, stats, snap, prev >>

\* await client.createCustomer({...}): POST /customers; the catch block
\* prints 'already exists' when the message says so
\* String.prototype.includes, a string being a sequence
StrIncludes(str, sub) ==
  \E i \in 1..(Len(str) - Len(sub) + 1) : SubSeq(str, i, i + Len(sub) - 1) = sub

\* addr.firstname || customer.firstname
NameOrElse(addr, name, fallback) ==
  IF Has(addr, name) /\ addr[name] # "" THEN addr[name] ELSE fallback

\* a plausible slip: the address type compared with the word
createCustomer_address_exactType(addr, customer) ==
  [firstname |-> NameOrElse(addr, "firstname", customer.firstname),
   lastname |-> NameOrElse(addr, "lastname", customer.lastname),
   city |-> addr.city,
   defaultShipping |-> addr.type = <<"shipping">>,
   defaultBilling |-> addr.type = <<"billing">>]

\* seedCustomers: one entry of customer.addresses?.map((addr) => ({...}))
createCustomer_address(addr, customer) ==
  [firstname |-> NameOrElse(addr, "firstname", customer.firstname),
   lastname |-> NameOrElse(addr, "lastname", customer.lastname),
   city |-> addr.city,
   defaultShipping |-> StrIncludes(addr.type, <<"shipping">>),
   defaultBilling |-> StrIncludes(addr.type, <<"billing">>)]

\* the argument seedCustomers hands to client.createCustomer; addresses is
\* undefined when the fixture has none
createCustomer_argument(customer) ==
  IF Has(customer, "addresses")
  THEN [email |-> customer.email, firstname |-> customer.firstname,
        lastname |-> customer.lastname,
        addresses |-> [k \in 1..Len(customer.addresses) |->
                         createCustomer_address(customer.addresses[k], customer)]]
  ELSE [email |-> customer.email, firstname |-> customer.firstname,
        lastname |-> customer.lastname]

\* createCustomer: customer.addresses?.map((addr) => ({ firstname:
\* addr.firstname || customer.firstname, ..., default_shipping:
\* addr.defaultShipping ?? true, default_billing: addr.defaultBilling ?? true
\* })) || [], in the payload with email, firstname and lastname
createCustomer_payload(customer) ==
  [email |-> customer.email, firstname |-> customer.firstname,
   lastname |-> customer.lastname,
   addresses |->
     IF Has(customer, "addresses")
     THEN [k \in 1..Len(customer.addresses) |->
             LET addr == customer.addresses[k]
             IN  [firstname |-> NameOrElse(addr, "firstname", customer.firstname),
                  lastname |-> NameOrElse(addr, "lastname", customer.lastname),
                  city |-> addr.city,
                  default_shipping |-> IF Has(addr, "defaultShipping")
                                       THEN addr.defaultShipping ELSE TRUE,
                  default_billing |-> IF Has(addr, "defaultBilling")
                                      THEN addr.defaultBilling ELSE TRUE]]
     ELSE <<>>]

\* this.client.post('/customers', payload)
createCustomer_request(customer, res) ==
  [op |-> "POST /customers", key |-> customer.email, res |-> res, rule_id |-> 0,
   payload |-> createCustomer_payload(createCustomer_argument(customer))]

seedCustomers_createCustomer(r) ==
  /\ pc[r] = "createCustomer"
  /\ LET customers == sel[r].customers
         customer == customers[idx[r]]
     IN  \E res \in createCustomer_answers(customer.email) :
           /\ log' = Logged(r, createCustomer_request(customer, res))
           /\ faults' = Charged(res)
           /\ remote' = IF res = "ok"
                        THEN [remote EXCEPT
                                !.customers = @ \cup {[id |-> remote.nextId,
                                   email |-> customer.email]},
                                !.nextId = @ + 1]
                        ELSE remote
           /\ outcomes' = [outcomes EXCEPT ![r].customers =
                 Append(@, Outcome(customer.email,
                   IF res = "ok" THEN "created"
                   ELSE IF messageSaysAlreadyExists(res) THEN "exists"
                   ELSE "failed"))]
           /\ idx' = Step(r, customers)
           /\ pc' = [pc EXCEPT ![r] =
                 seedFixture_next("getCustomerByEmail", seedAll_then("seedCustomers"),
                   More(r, customers), res # "ok")]
  /\ UNCHANGED << manifest, env, invoked, checkout, returned, interfered, args, runNo, token, sel, ruleId, found,
                  stats, snap, prev >>

seedCoupons_filter(r) ==
  /\ pc[r] = "seedCoupons"
  /\ LET coupons == seedCoupons_select(args[r].tier)
     IN  /\ sel' = [sel EXCEPT ![r].coupons = coupons]
         /\ pc' = [pc EXCEPT ![r] =
                     IF coupons = <<>> THEN seedAll_then("seedCoupons") ELSE "getCouponByCode"]
  /\ idx' = [idx EXCEPT ![r] = 1]
  /\ manifest' = [manifest EXCEPT !.coupons = afterRead(@)]
  /\ UNCHANGED << env, invoked, checkout, returned, remote, faults, interfered, args, runNo, token,
                  ruleId, found, stats, outcomes, log, snap, prev >>

\* existing = await client.getCouponByCode(coupon.code)
seedCoupons_getCouponByCode(r) ==
  /\ pc[r] = "getCouponByCode"
  /\ LET coupons == sel[r].coupons
         coupon == coupons[idx[r]]
     IN  \E res \in getCouponByCode_answers(coupon.code) :
           /\ log' = Logged(r, Call("GET /coupons/search", coupon.code, res, 0))
           /\ faults' = Charged(res)
           /\ IF getCouponByCode(res) = "null"
              THEN /\ pc' = [pc EXCEPT ![r] = "postSalesRules"]
                   /\ UNCHANGED << idx, outcomes >>
              ELSE /\ outcomes' = [outcomes EXCEPT ![r].coupons =
                         Append(@, Outcome(coupon.code, "exists"))]
                   /\ idx' = Step(r, coupons)
                   /\ pc' = [pc EXCEPT ![r] =
                         seedFixture_next("getCouponByCode", seedAll_then("seedCoupons"),
                           More(r, coupons), FALSE)]
  /\ UNCHANGED << manifest, env, invoked, checkout, returned, remote, interfered, args, runNo, token, sel, ruleId,
                  found, stats, snap, prev >>

\* createCouponRule, first request: POST /salesRules; the answer carries
\* the new rule_id.  An error leaves createCouponRule and is caught by
\* seedCoupons.
createCouponRule_postSalesRules(r) ==
  /\ pc[r] = "postSalesRules"
  /\ LET coupons == sel[r].coupons
         coupon == coupons[idx[r]]
     IN  \E res \in postSalesRules_answers :
           /\ log' = Logged(r, Call("POST /salesRules", coupon.name, res,
                                   IF res = "ok" THEN remote.nextId ELSE 0))
           /\ faults' = Charged(res)
           /\ IF res = "ok"
              THEN /\ remote' = [remote EXCEPT
                          !.rules = @ \cup {[rule_id |-> remote.nextId,
                                             name |-> coupon.name]},
                          !.nextId = @ + 1]
                   /\ ruleId' = [ruleId EXCEPT ![r] = remote.nextId]
                   /\ pc' = [pc EXCEPT ![r] = "postCoupons"]
                   /\ UNCHANGED << idx, outcomes >>
              ELSE /\ outcomes' = [outcomes EXCEPT ![r].coupons =
                         Append(@, Outcome(coupon.code, "failed"))]
                   /\ idx' = Step(r, coupons)
                   /\ pc' = [pc EXCEPT ![r] =
                         seedFixture_next("getCouponByCode", seedAll_then("seedCoupons"),
                           More(r, coupons), TRUE)]
                   /\ UNCHANGED << remote, ruleId >>
  /\ UNCHANGED << manifest, env, invoked, checkout, returned, interfered, args, runNo, token, sel, found, stats,
                  snap, prev >>

\* a plausible slip: the id read from a field the answer does not have
couponPayload_noRuleId(rid, coupon) == [rule_id |-> 0, code |-> coupon.code]

\* couponPayload = { coupon: { rule_id: ruleId, code: coupon.code, ... } }
couponPayload(rid, coupon) == [rule_id |-> rid, code |-> coupon.code]

\* POST /coupons of a payload: a code must name a rule the platform holds
postCoupons_payloadAnswers(payload) ==
  IF \E x \in remote.rules : x.rule_id = payload.rule_id
  THEN postCoupons_answers(payload.code)
  ELSE {"err"}

\* createCouponRule, second request: POST /coupons.  No request follows a
\* failure: the rule stays.
createCouponRule_postCoupons(r) ==
  /\ pc[r] = "postCoupons"
  /\ LET coupons == sel[r].coupons
         coupon == coupons[idx[r]]
         payload == couponPayload(ruleId[r], coupon)
     IN  \E res \in postCoupons_payloadAnswers(payload) :
           /\ log' = Logged(r, Call("POST /coupons", payload.code, res, payload.rule_id))
           /\ faults' = Charged(res)
           /\ remote' = IF res = "ok"
                        THEN [remote EXCEPT
                                !.coupons = @ \cup {[coupon_id |-> remote.nextId,
                                   code |-> payload.code, rule_id |-> payload.rule_id]},
                                !.nextId = @ + 1]
                        ELSE remote
           /\ outcomes' = [outcomes EXCEPT ![r].coupons =
                 Append(@, Outcome(coupon.code,
                   IF res = "ok" THEN "created"
                   ELSE IF messageSaysAlreadyExists(res) THEN "exists"
                   ELSE "failed"))]
           /\ idx' = Step(r, coupons)
           /\ pc' = [pc EXCEPT ![r] =
                 seedFixture_next("getCouponByCode", seedAll_then("seedCoupons"),
                   More(r, coupons), res # "ok")]
  /\ UNCHANGED << manifest, env, invoked, checkout, returned, interfered, args, runNo, token, sel, ruleId, found,
                  stats, snap, prev >>

(***************************************************************************)
(* delete-fixtures.ts.                                                      *)
(***************************************************************************)
\* a plausible slip: the rule-name pattern written like the SKU prefix
TEST_COUPON_UPPER == <<"TEST", "%">>

\* a plausible slip: cleanup narrowed to the SKU of one known fixture
TEST_SKU_EXACT == <<"TEST_", "SIMPLE_001">>

TEST_SKU_PREFIX == <<"TEST_", "%">>
TEST_EMAIL_PATTERN == <<"%", "@qbdigital.test">>
TEST_COUPON_PREFIX == <<"Test", "%">>

\* the items of the three 'like' searches
searchProducts(skuPattern) ==
  SortByKey({p \in remote.products : Like(skuPattern, p.sku)},
            [p \in remote.products |-> p.id])
searchCustomers(emailPattern) ==
  SortByKey({c \in remote.customers : Like(emailPattern, c.email)},
            [c \in remote.customers |-> c.id])
searchSalesRules(namePattern) ==
  SortByKey({x \in remote.rules : Like(namePattern, x.name)},
            [x \in remote.rules |-> x.rule_id])

\* a plausible slip: the dry-run flag not looked at
deleteBranch_always(dryRun, answers) == answers

\* if (dryRun) { count } else { delete call }: "dry" stands for no request
deleteBranch(dryRun, answers) == IF dryRun THEN {"dry"} ELSE answers

\* a plausible slip: stats.deleted++ placed after the try block
countDeleted_anyAnswer(res) == TRUE

\* stats.deleted++ in dry-run mode and when the delete call returned true
countDeleted(res) == res = "dry" \/ deleteResult(res) = "true"

\* a plausible slip: a record answered 'not found' counted as a failure
countFailed_notDeleted(res) == res # "dry" /\ deleteResult(res) # "true"

\* stats.failed++ when the delete call threw
countFailed(res) == res # "dry" /\ deleteResult(res) = "throw"

Counted(stat, res) ==
  [stat EXCEPT !.deleted = IF countDeleted(res) THEN @ + 1 ELSE @,
               !.failed = IF countFailed(res) THEN @ + 1 ELSE @]

\* a plausible slip: the error of one delete call leaves the loop and the run
deleteFixture_rethrow(loopPc, nextPc, more, failed) ==
  IF failed THEN "exit" ELSE IF more THEN loopPc ELSE nextPc

\* the end of a delete loop body, also through its catch block
deleteFixture_next(loopPc, nextPc, more, failed) == IF more THEN loopPc ELSE nextPc

\* products = await client.searchProducts(TEST_SKU_PREFIX); an error is
\* caught and the function returns its zero stats
deleteProducts_search(r) ==
  /\ pc[r] = "deleteProducts"
  /\ \E res \in {"ok"} \cup Fault :
       LET products == IF res = "ok" THEN searchProducts(TEST_SKU_PREFIX) ELSE <<>>
       IN  /\ log' = Logged(r, Call("GET /products like", TEST_SKU_PREFIX, res, 0))
           /\ faults' = Charged(res)
           /\ found' = [found EXCEPT ![r].products = products]
           /\ stats' = [stats EXCEPT ![r].products.found = Len(products)]
           /\ pc' = [pc EXCEPT ![r] =
                 IF products = <<>> THEN cleanupAll_then("deleteProducts") ELSE "deleteProduct"]
  /\ idx' = [idx EXCEPT ![r] = 1]
  /\ UNCHANGED << manifest, env, invoked, checkout, returned, remote, interfered, args, runNo, token, sel, ruleId,
                  outcomes, snap, prev >>

\* one turn of the loop of deleteProducts: DELETE /products/:sku unless dry
deleteProducts_each(r) ==
  /\ pc[r] = "deleteProduct"
  /\ LET products == found[r].products
         product == products[idx[r]]
     IN  \E res \in deleteBranch(args[r].dryRun, deleteProduct_answers(product.sku)) :
           /\ log' = IF res = "dry" THEN log
                     ELSE Logged(r, Call("DELETE /products", product.sku, res, 0))
           /\ faults' = Charged(res)
           /\ remote' = IF res = "ok"
                        THEN [remote EXCEPT !.products =
                                {p \in @ : p.sku # product.sku}]
                        ELSE remote
           /\ stats' = [stats EXCEPT ![r].products = Counted(@, res)]
           /\ idx' = Step(r, products)
           /\ pc' = [pc EXCEPT ![r] =
                 deleteFixture_next("deleteProduct", cleanupAll_then("deleteProducts"),
                   More(r, products), countFailed(res))]
  /\ UNCHANGED << manifest, env, invoked, checkout, returned, interfered, args, runNo, token, sel, ruleId, found,
                  outcomes, snap, prev >>

deleteCustomers_search(r) ==
  /\ pc[r] = "deleteCustomers"
  /\ \E res \in {"ok"} \cup Fault :
       LET customers == IF res = "ok" THEN searchCustomers(TEST_EMAIL_PATTERN) ELSE <<>>
       IN  /\ log' = Logged(r, Call("GET /customers/search like", TEST_EMAIL_PATTERN, res, 0))
           /\ faults' = Charged(res)
           /\ found' = [found EXCEPT ![r].customers = customers]
           /\ stats' = [stats EXCEPT ![r].customers.found = Len(customers)]
           /\ pc' = [pc EXCEPT ![r] =
                 IF customers = <<>> THEN cleanupAll_then("deleteCustomers") ELSE "deleteCustomer"]
  /\ idx' = [idx EXCEPT ![r] = 1]
  /\ UNCHANGED << manifest, env, invoked, checkout, returned, remote, interfered, args, runNo, token, sel, ruleId,
                  outcomes, snap, prev >>

\* one turn of the loop of deleteCustomers: DELETE /customers/:id unless dry
deleteCustomers_each(r) ==
  /\ pc[r] = "deleteCustomer"
  /\ LET customers == found[r].customers
         customer == customers[idx[r]]
     IN  \E res \in deleteBranch(args[r].dryRun, deleteCustomer_answers(customer.id)) :
           /\ log' = IF res = "dry" THEN log
                     ELSE Logged(r, Call("DELETE /customers", customer.email, res, 0))
           /\ faults' = Charged(res)
           /\ remote' = IF res = "ok"
                        THEN [remote EXCEPT !.customers =
                                {c \in @ : c.id # customer.id}]
                        ELSE remote
           /\ stats' = [stats EXCEPT ![r].customers = Counted(@, res)]
           /\ idx' = Step(r, customers)
           /\ pc' = [pc EXCEPT ![r] =
                 deleteFixture_next("deleteCustomer", cleanupAll_then("deleteCustomers"),
                   More(r, customers), countFailed(res))]
  /\ UNCHANGED << manifest, env, invoked, checkout, returned, interfered, args, runNo, token, sel, ruleId, found,
                  outcomes, snap, prev >>

deleteCoupons_search(r) ==
  /\ pc[r] = "deleteCoupons"
  /\ \E res \in {"ok"} \cup Fault :
       LET rules == IF res = "ok" THEN searchSalesRules(TEST_COUPON_PREFIX) ELSE <<>>
       IN  /\ log' = Logged(r, Call("GET /salesRules/search like", TEST_COUPON_PREFIX, res, 0))
           /\ faults' = Charged(res)
           /\ found' = [found EXCEPT ![r].coupons = rules]
           /\ stats' = [stats EXCEPT ![r].coupons.found = Len(rules)]
           /\ pc' = [pc EXCEPT ![r] =
                 IF rules = <<>> THEN cleanupAll_then("deleteCoupons") ELSE "deleteSalesRule"]
  /\ idx' = [idx EXCEPT ![r] = 1]
  /\ UNCHANGED << manifest, env, invoked, checkout, returned, remote, interfered, args, runNo, token, sel, ruleId,
                  outcomes, snap, prev >>

\* a plausible slip: the coupon code deleted instead of its rule
deleteSalesRule_atCoupons(rule, res) == Call("DELETE /coupons", rule.name, res, rule.rule_id)

\* deleteSalesRule(rule.rule_id): DELETE /salesRules/:ruleId
deleteSalesRule_request(rule, res) == Call("DELETE /salesRules", rule.name, res, rule.rule_id)

\* one turn of the loop of deleteCoupons: DELETE /salesRules/:id unless
\* dry.  The platform drops the rule's coupon codes with the rule.
deleteCoupons_each(r) ==
  /\ pc[r] = "deleteSalesRule"
  /\ LET rules == found[r].coupons
         rule == rules[idx[r]]
     IN  \E res \in deleteBranch(args[r].dryRun, deleteSalesRule_answers(rule.rule_id)) :
           /\ log' = IF res = "dry" THEN log
                     ELSE Logged(r, deleteSalesRule_request(rule, res))
           /\ faults' = Charged(res)
           /\ remote' = IF res = "ok"
                        THEN [remote EXCEPT
                                !.rules = {x \in @ : x.rule_id # rule.rule_id},
                                !.coupons = {c \in @ : c.rule_id # rule.rule_id}]
                        ELSE remote
           /\ stats' = [stats EXCEPT ![r].coupons = Counted(@, res)]
           /\ idx' = Step(r, rules)
           /\ pc' = [pc EXCEPT ![r] =
                 deleteFixture_next("deleteSalesRule", cleanupAll_then("deleteCoupons"),
                   More(r, rules), countFailed(res))]
  /\ UNCHANGED << manifest, env, invoked, checkout, returned, interfered, args, runNo, token, sel, ruleId, found,
                  outcomes, snap, prev >>

(***************************************************************************)
(* Another writer: while a cleanup run works through what it found,         *)
(* somebody else removes a record the run has not reached yet.              *)
(***************************************************************************)
Pending(r) ==
  CASE pc[r] = "deleteProduct" ->
         {p \in remote.products :
            \E i \in idx[r]..Len(found[r].products) : found[r].products[i] = p}
    [] pc[r] = "deleteCustomer" ->
         {c \in remote.customers :
            \E i \in idx[r]..Len(found[r].customers) : found[r].customers[i] = c}
    [] pc[r] = "deleteSalesRule" ->
         {x \in remote.rules :
            \E i \in idx[r]..Len(found[r].coupons) : found[r].coupons[i] = x}
    [] OTHER -> {}

OtherWriter ==
  /\ CanFault
  /\ \E r \in Procs : \E rec \in Pending(r) :
       remote' = [remote EXCEPT
                    !.products = @ \ {rec},
                    !.customers = @ \ {rec},
                    !.rules = @ \ {rec},
                    !.coupons = IF pc[r] = "deleteSalesRule"
                                THEN {c \in @ : c.rule_id # rec.rule_id} ELSE @]
  /\ faults' = faults + 1
  /\ interfered' = TRUE
  /\ UNCHANGED << manifest, env, invoked, checkout, returned, pc, args, runNo, token, sel, idx, ruleId, found,
                  stats, outcomes, log, snap, prev >>

(***************************************************************************)
(* The scripts of one operator, run one after the other.                    *)
(***************************************************************************)
Proc(r) ==
  \/ seedAll(r)
  \/ cleanupAll(r)
  \/ authenticate(r)
  \/ seedProducts_filter(r)
  \/ seedProducts_getProduct(r)
  \/ seedProducts_createProduct(r)
  \/ seedCustomers_filter(r)
  \/ seedCustomers_getCustomerByEmail(r)
  \/ seedCustomers_createCustomer(r)
  \/ seedCoupons_filter(r)
  \/ seedCoupons_getCouponByCode(r)
  \/ createCouponRule_postSalesRules(r)
  \/ createCouponRule_postCoupons(r)
  \/ deleteProducts_search(r)
  \/ deleteProducts_each(r)
  \/ deleteCustomers_search(r)
  \/ deleteCustomers_each(r)
  \/ deleteCoupons_search(r)
  \/ deleteCoupons_each(r)

Next == Proc(1) \/ OtherWriter

Spec == Init /\ [][Next]_vars

(***************************************************************************)
(* Two operators seeding the same environment for the same tier at the      *)
(* same time, one run each.                                                 *)
(***************************************************************************)
seedAllConcurrently(r) ==
  /\ runNo[r] = 0
  /\ seedAll(r)
  /\ \A s \in Procs : runNo[s] > 0 => args'[r].tier = args[s].tier

SeedProc(r) ==
  \/ seedAllConcurrently(r)
  \/ authenticate(r)
  \/ seedProducts_filter(r)
  \/ seedProducts_getProduct(r)
  \/ seedProducts_createProduct(r)
  \/ seedCustomers_filter(r)
  \/ seedCustomers_getCustomerByEmail(r)
  \/ seedCustomers_createCustomer(r)
  \/ seedCoupons_filter(r)
  \/ seedCoupons_getCouponByCode(r)
  \/ createCouponRule_postSalesRules(r)
  \/ createCouponRule_postCoupons(r)

InitConcurrent == Init /\ manifest = UnconventionalManifest
NextConcurrent == \E r \in Procs : SeedProc(r)
SpecConcurrent == InitConcurrent /\ [][NextConcurrent]_vars

(***************************************************************************)
(* A test calling into test-data.ts while the scripts run or rest.          *)
(***************************************************************************)
ForTierCalls == {"getProductsForTier", "getCustomersForTier", "getCouponsForTier"}
FindCalls == {"getProductById", "getProductBySku", "getCustomerById",
              "getCustomerByEmail", "getCouponById", "getCouponByCode"}
FindArgs(fn) ==
  CASE fn = "getProductById" -> {"simple_product_basic", "no_such_product"}
    [] fn = "getProductBySku" -> {SkuOos, SkuLive}
    [] fn = "getCustomerById" -> {"test_customer_eu"}
    [] fn = "getCustomerByEmail" -> {EmailBasic}
    [] fn = "getCouponById" -> {"coupon_5_fixed"}
    [] fn = "getCouponByCode" -> {CodeTen, CodeLive}
KindOfCall(fn) ==
  CASE fn \in {"getProductsForTier", "getProductById", "getProductBySku"} -> "products"
    [] fn \in {"getCustomersForTier", "getCustomerById", "getCustomerByEmail"} -> "customers"
    [] OTHER -> "coupons"

testData_forTier ==
  /\ \E fn \in ForTierCalls : \E tier \in Tiers :
       /\ returned' = CASE fn = "getProductsForTier" -> getProductsForTier(tier)
                        [] fn = "getCustomersForTier" -> getCustomersForTier(tier)
                        [] fn = "getCouponsForTier" -> getCouponsForTier(tier)
       /\ manifest' = [manifest EXCEPT ![KindOfCall(fn)] = afterRead(@)]
  /\ UNCHANGED << env, invoked, checkout, remote, faults, interfered, pc, args, runNo, token, sel,
                  idx, ruleId, found, stats, outcomes, log, snap, prev >>

testData_find ==
  /\ \E fn \in FindCalls : \E arg \in FindArgs(fn) :
       /\ returned' = CASE fn = "getProductById" -> getProductById(arg)
                        [] fn = "getProductBySku" -> getProductBySku(arg)
                        [] fn = "getCustomerById" -> getCustomerById(arg)
                        [] fn = "getCustomerByEmail" -> testData_getCustomerByEmail(arg)
                        [] fn = "getCouponById" -> getCouponById(arg)
                        [] fn = "getCouponByCode" -> testData_getCouponByCode(arg)
       /\ manifest' = [manifest EXCEPT ![KindOfCall(fn)] = afterRead(@)]
  /\ UNCHANGED << env, invoked, checkout, remote, faults, interfered, pc, args, runNo, token, sel,
                  idx, ruleId, found, stats, outcomes, log, snap, prev >>

InitTestData == Init /\ remote = EmptyRemote
NextTestData == Proc(1) \/ testData_forTier \/ testData_find
SpecTestData == InitTestData /\ [][NextTestData]_vars

(***************************************************************************)
(* The tier in use: seed-all started with any argument, and a test asking   *)
(* getCurrentTier under any TEST_TIER.                                      *)
(***************************************************************************)
TierInputs == {<<>>, <<"a">>, <<"A">>, <<"b">>, <<"B">>, <<"c">>, <<"C">>,
               <<"d">>, <<"D">>, <<"a", "b">>, <<"A", "B">>}

seedAll_anyArgument(r) ==
  /\ runNo[r] = 0
  /\ \E argv \in {<<>>} \cup {<<x>> : x \in TierInputs} : seedAllWith(r, argv, MaxRuns)

testData_getCurrentTier ==
  /\ \E testTier \in {Undefined} \cup TierInputs :
       returned' = << [TEST_TIER |-> testTier, tier |-> getCurrentTier(testTier)] >>
  /\ UNCHANGED << manifest, env, invoked, checkout, remote, faults, interfered, pc, args, runNo, token,
                  sel, idx, ruleId, found, stats, outcomes, log, snap, prev >>

TierProc(r) ==
  \/ seedAll_anyArgument(r)
  \/ authenticate(r)
  \/ seedProducts_filter(r)
  \/ seedProducts_getProduct(r)
  \/ seedProducts_createProduct(r)
  \/ seedCustomers_filter(r)
  \/ seedCustomers_getCustomerByEmail(r)
  \/ seedCustomers_createCustomer(r)
  \/ seedCoupons_filter(r)
  \/ seedCoupons_getCouponByCode(r)
  \/ createCouponRule_postSalesRules(r)
  \/ createCouponRule_postCoupons(r)

InitTier == Init /\ manifest = UnconventionalManifest /\ remote = EmptyRemote
NextTier == TierProc(1) \/ testData_getCurrentTier
SpecTier == InitTier /\ [][NextTier]_vars

(***************************************************************************)
(* MagentoApiClient used directly, as a test does: any method on a client   *)
(* that may or may not hold a token.  Only the requests a method sends are  *)
(* kept, not what they change remotely.                                     *)
(***************************************************************************)
MaxCalls == 3

ClientMethods ==
  {"createProduct", "getProduct", "deleteProduct", "searchProducts",
   "createCustomer", "getCustomerByEmail", "deleteCustomer", "searchCustomers",
   "createCouponRule", "getCouponByCode", "deleteSalesRule", "searchSalesRules",
   "getOrderByIncrementId", "flushCache", "healthCheck"}

\* the requests a method sends, each after the one before was answered
RequestsOf(method) ==
  CASE method = "createProduct" -> <<"POST /products">>
    [] method = "getProduct" -> <<"GET /products">>
    [] method = "deleteProduct" -> <<"DELETE /products">>
    [] method = "searchProducts" -> <<"GET /products like">>
    [] method = "createCustomer" -> <<"POST /customers">>
    [] method = "getCustomerByEmail" -> <<"GET /customers/search">>
    [] method = "deleteCustomer" -> <<"DELETE /customers">>
    [] method = "searchCustomers" -> <<"GET /customers/search like">>
    [] method = "createCouponRule" -> <<"POST /salesRules", "POST /coupons">>
    [] method = "getCouponByCode" -> <<"GET /coupons/search">>
    [] method = "deleteSalesRule" -> <<"DELETE /salesRules">>
    [] method = "searchSalesRules" -> <<"GET /salesRules/search like">>
    [] method = "getOrderByIncrementId" -> <<"GET /orders">>
    [] method = "flushCache" -> <<>>
    [] method = "healthCheck" -> <<"GET /store/storeConfigs">>

\* a plausible slip: a method that sends its request without looking for a token
ensureAuth_skipped(held) == "request"

\* ensureAuth: if (!this.token) { await this.authenticate(); }
ensureAuth(held) == IF held THEN "request" ELSE "authenticate"

\* createApiClient() in a test: a client with no token
client_create(r) ==
  /\ pc[r] = "idle"
  /\ createApiClient(env) # "throw"
  /\ pc' = [pc EXCEPT ![r] = "client"]
  /\ token' = [token EXCEPT ![r] = FALSE]
  /\ log' = [log EXCEPT ![r] = <<>>]
  /\ UNCHANGED << manifest, env, invoked, checkout, returned, remote, faults, interfered, args,
                  runNo, sel, idx, ruleId, found, stats, outcomes, snap, prev >>

\* a method is called: all but healthCheck start with await this.ensureAuth()
client_invoke(r) ==
  /\ pc[r] = "client"
  /\ Len(log[r]) < MaxCalls
  /\ \E method \in ClientMethods :
       /\ invoked' = [invoked EXCEPT ![r] =
                        [method |-> method, todo |-> RequestsOf(method), threw |-> FALSE]]
       /\ pc' = [pc EXCEPT ![r] =
                   IF method = "healthCheck" THEN "request" ELSE ensureAuth(token[r])]
  /\ UNCHANGED << manifest, env, checkout, returned, remote, faults, interfered, args, runNo,
                  token, sel, idx, ruleId, found, stats, outcomes, log, snap, prev >>

\* authenticate() called by ensureAuth: the token is kept, or the error is
\* thrown on to the method's caller
client_authenticate(r) ==
  /\ pc[r] = "authenticate"
  /\ \E res \in {"ok"} \cup Fault :
       /\ log' = Logged(r, Call("POST /integration/admin/token", <<>>, res, 0))
       /\ faults' = Charged(res)
       /\ token' = [token EXCEPT ![r] = (res = "ok")]
       /\ invoked' = [invoked EXCEPT ![r] =
                        IF res = "ok" THEN @ ELSE [@ EXCEPT !.todo = <<>>, !.threw = TRUE]]
       /\ pc' = [pc EXCEPT ![r] = IF res = "ok" THEN "request" ELSE "client"]
  /\ UNCHANGED << manifest, env, checkout, returned, remote, interfered, args, runNo, sel, idx,
                  ruleId, found, stats, outcomes, snap, prev >>

\* the method's next request; after an error no further request of the
\* method is sent (the error is thrown on, or caught and answered with
\* null or false); with nothing left to send the method returns
client_request(r) ==
  /\ pc[r] = "request"
  /\ IF invoked[r].todo = <<>>
     THEN /\ pc' = [pc EXCEPT ![r] = "client"]
          /\ UNCHANGED << log, faults, invoked >>
     ELSE \E res \in {"ok"} \cup Fault :
            /\ log' = Logged(r, Call(Head(invoked[r].todo), <<>>, res, 0))
            /\ faults' = Charged(res)
            /\ invoked' = [invoked EXCEPT ![r].todo =
                             IF res = "ok" THEN Tail(@) ELSE <<>>]
            /\ pc' = pc
  /\ UNCHANGED << manifest, env, checkout, returned, remote, interfered, args, runNo, token,
                  sel, idx, ruleId, found, stats, outcomes, snap, prev >>

ClientProc(r) ==
  \/ client_create(r)
  \/ client_invoke(r)
  \/ client_authenticate(r)
  \/ client_request(r)

InitClient == Init /\ manifest = ConventionalManifest /\ remote = EmptyRemote
NextClient == ClientProc(1)
SpecClient == InitClient /\ [][NextClient]_vars

(***************************************************************************)
(* HyvaCheckoutPage.completeGuestCheckout.  Every step is a test.step that  *)
(* is awaited: it completes, or it throws (a locator that does not show, a  *)
(* click or a navigation that times out) and the error leaves the method.   *)
(***************************************************************************)
ShippingArguments == {Unset, "flatrate", "free"}
PaymentArguments == {Unset, "checkmo", "banktransfer", "cashondelivery"}

\* a parameter with a default value
DefaultTo(given, default) == IF given = Unset THEN default ELSE given

\* if (shippingMethod === 'flatrate') selectFlatRateShipping else selectFreeShipping
afterFillShippingAddress(shippingMethod) ==
  IF shippingMethod = "flatrate" THEN "selectFlatRateShipping" ELSE "selectFreeShipping"

\* a plausible slip: the payment step left to the page's preselection
afterClickNext_noPayment(paymentMethod) == "clickPlaceOrder"

\* if (paymentMethod === 'checkmo') ... else if (=== 'banktransfer') ... else ...
afterClickNext(paymentMethod) ==
  IF paymentMethod = "checkmo" THEN "selectCheckMoneyOrder"
  ELSE IF paymentMethod = "banktransfer" THEN "selectBankTransfer"
  ELSE "selectCashOnDelivery"

\* completeGuestCheckout(email, address, shippingMethod = 'flatrate',
\* paymentMethod = 'checkmo') is called
completeGuestCheckout ==
  /\ checkout.pc = "idle"
  /\ \E shippingMethod \in ShippingArguments : \E paymentMethod \in PaymentArguments :
       checkout' = [checkout EXCEPT
                      !.pc = "navigateToCheckout",
                      !.given = << shippingMethod, paymentMethod >>,
                      !.shippingMethod = DefaultTo(shippingMethod, "flatrate"),
                      !.paymentMethod = DefaultTo(paymentMethod, "checkmo")]
  /\ UNCHANGED << manifest, env, invoked, returned, remote, faults, interfered, pc, args,
                  runNo, token, sel, idx, ruleId, found, stats, outcomes, log, snap, prev >>

\* one awaited step: it completes, the page changes and the method goes
\* on, or it throws and the method is left
CheckoutStep(name, next, done) ==
  /\ checkout.pc = name
  /\ \E res \in {"ok", "throw"} :
       checkout' = IF res = "ok"
                   THEN [done EXCEPT !.pc = next,
                                     !.steps = Append(@, [step |-> name, res |-> res])]
                   ELSE [checkout EXCEPT !.pc = "threw",
                                         !.steps = Append(@, [step |-> name, res |-> res])]
  /\ UNCHANGED << manifest, env, invoked, returned, remote, faults, interfered, pc, args,
                  runNo, token, sel, idx, ruleId, found, stats, outcomes, log, snap, prev >>

navigateToCheckout == CheckoutStep("navigateToCheckout", "enterEmail", checkout)
enterEmail == CheckoutStep("enterEmail", "fillShippingAddress", checkout)
fillShippingAddress ==
  CheckoutStep("fillShippingAddress", afterFillShippingAddress(checkout.shippingMethod),
               checkout)
selectFlatRateShipping ==
  CheckoutStep("selectFlatRateShipping", "clickNext",
               [checkout EXCEPT !.shipping = "flatrate"])
selectFreeShipping ==
  CheckoutStep("selectFreeShipping", "clickNext", [checkout EXCEPT !.shipping = "free"])
clickNext == CheckoutStep("clickNext", afterClickNext(checkout.paymentMethod), checkout)
selectCheckMoneyOrder ==
  CheckoutStep("selectCheckMoneyOrder", "clickPlaceOrder",
               [checkout EXCEPT !.payment = "checkmo"])
selectBankTransfer ==
  CheckoutStep("selectBankTransfer", "clickPlaceOrder",
               [checkout EXCEPT !.payment = "banktransfer"])
selectCashOnDelivery ==
  CheckoutStep("selectCashOnDelivery", "clickPlaceOrder",
               [checkout EXCEPT !.payment = "cashondelivery"])
clickPlaceOrder ==
  CheckoutStep("clickPlaceOrder", "verifySuccessPage", [checkout EXCEPT !.placed = TRUE])
verifySuccessPage ==
  CheckoutStep("verifySuccessPage", "returned", [checkout EXCEPT !.verified = TRUE])

InitCheckout == Init /\ manifest = ConventionalManifest /\ remote = EmptyRemote
NextCheckout ==
  \/ completeGuestCheckout
  \/ navigateToCheckout
  \/ enterEmail
  \/ fillShippingAddress
  \/ selectFlatRateShipping
  \/ selectFreeShipping
  \/ clickNext
  \/ selectCheckMoneyOrder
  \/ selectBankTransfer
  \/ selectCashOnDelivery
  \/ clickPlaceOrder
  \/ verifySuccessPage
SpecCheckout == InitCheckout /\ [][NextCheckout]_vars

(***************************************************************************)
(* A script that runs keeps running: every request is answered or fails    *)
(* (the client's requests time out), and the script goes on from there.     *)
(***************************************************************************)
SpecLive == Spec /\ WF_vars(Proc(1))

(***************************************************************************)
(* The accessors of the well-known fixtures, over manifests that hold all   *)
(* of them, some of them, one of them twice, or none.                       *)
(***************************************************************************)
EmailMulti == <<"test", ".", "multi", "@">>
CodeShip == <<"TEST", "SHIP">>
RuleShip == <<"TEST", "Ship", "rule">>

FullManifest ==
  [ products |->
      ConventionalManifest.products \o
      << [id |-> "simple_product_low_stock", sku |-> SkuOld, name |-> "Test Low Stock Product",
          price |-> 999, qty |-> 2, status |-> "enabled", tier |-> <<"C">>] >>,
    customers |->
      << [id |-> "test_customer_multi_address", email |-> EmailMulti,
          tier |-> <<"B", "C">>] >> \o ConventionalManifest.customers,
    coupons |->
      ConventionalManifest.coupons \o
      << [id |-> "coupon_free_shipping", code |-> CodeShip, name |-> RuleShip,
          type |-> "free_shipping", tier |-> <<"C">>] >> ]

TwiceManifest ==
  [ products |->
      << [id |-> "simple_product_oos", sku |-> SkuOos, name |-> "Test Out of Stock Product",
          price |-> 2999, qty |-> 0, status |-> "enabled", tier |-> <<"B", "C">>],
         [id |-> "simple_product_basic", sku |-> SkuSimple, name |-> "Test Simple Product",
          price |-> 1999, qty |-> 10, status |-> "enabled", tier |-> <<"A", "B", "C">>],
         [id |-> "simple_product_basic", sku |-> SkuOld, name |-> "Test Simple Product",
          price |-> 999, qty |-> 2, status |-> "disabled", tier |-> <<"C">>] >>,
    customers |->
      << [id |-> "test_customer_eu", email |-> EmailEu, tier |-> <<"C">>],
         [id |-> "test_customer_eu", email |-> EmailBasic, tier |-> <<"A">>] >>,
    coupons |->
      << [id |-> "coupon_5_fixed", code |-> CodeFive, name |-> RuleFive,
          type |-> "fixed", tier |-> <<"B", "C">>],
         [id |-> "coupon_5_fixed", code |-> CodeTen, name |-> RuleTen,
          type |-> "percentage", tier |-> <<"A">>] >> ]

NoManifest == [products |-> <<>>, customers |-> <<>>, coupons |-> <<>>]

WellKnownManifests ==
  {ConventionalManifest, UnconventionalManifest, FullManifest, TwiceManifest, NoManifest}

WellKnownCalls ==
  {"getSimpleProduct", "getOutOfStockProduct", "getLowStockProduct",
   "getTestCustomer", "getMultiAddressCustomer", "getEUCustomer",
   "getPercentageCoupon", "getFixedCoupon", "getFreeShippingCoupon"}

\* a plausible slip: the lookup's answer handed on as it is
orNotFound_unchecked(fixture, message) ==
  [threw |-> FALSE, error |-> "", value |-> fixture]

\* if (!x) { throw new Error(message); } return x;
orNotFound(fixture, message) ==
  IF fixture = <<>>
  THEN [threw |-> TRUE, error |-> message, value |-> <<>>]
  ELSE [threw |-> FALSE, error |-> "", value |-> fixture]

getSimpleProduct ==
  orNotFound(getProductById("simple_product_basic"),
             "Basic simple product not found in manifest")
getOutOfStockProduct ==
  orNotFound(getProductById("simple_product_oos"),
             "Out of stock product not found in manifest")
getLowStockProduct ==
  orNotFound(getProductById("simple_product_low_stock"),
             "Low stock product not found in manifest")
getTestCustomer ==
  orNotFound(getCustomerById("test_customer_basic"),
             "Basic test customer not found in manifest")
getMultiAddressCustomer ==
  orNotFound(getCustomerById("test_customer_multi_address"),
             "Multi-address customer not found in manifest")
getEUCustomer ==
  orNotFound(getCustomerById("test_customer_eu"),
             "EU customer not found in manifest")
getPercentageCoupon ==
  orNotFound(getCouponById("coupon_10_percent"),
             "Percentage coupon not found in manifest")
getFixedCoupon ==
  orNotFound(getCouponById("coupon_5_fixed"),
             "Fixed coupon not found in manifest")
getFreeShippingCoupon ==
  orNotFound(getCouponById("coupon_free_shipping"),
             "Free shipping coupon not found in manifest")

testData_wellKnown ==
  /\ \E fn \in WellKnownCalls :
       returned' =
         << [fn |-> fn,
             result |-> CASE fn = "getSimpleProduct" -> getSimpleProduct
                          [] fn = "getOutOfStockProduct" -> getOutOfStockProduct
                          [] fn = "getLowStockProduct" -> getLowStockProduct
                          [] fn = "getTestCustomer" -> getTestCustomer
                          [] fn = "getMultiAddressCustomer" -> getMultiAddressCustomer
                          [] fn = "getEUCustomer" -> getEUCustomer
                          [] fn = "getPercentageCoupon" -> getPercentageCoupon
                          [] fn = "getFixedCoupon" -> getFixedCoupon
                          [] fn = "getFreeShippingCoupon" -> getFreeShippingCoupon] >>
  /\ UNCHANGED << manifest, env, invoked, checkout, remote, faults, interfered, pc, args, runNo, token,
                  sel, idx, ruleId, found, stats, outcomes, log, snap, prev >>

InitWellKnown == InitOf({DefaultEnv}, WellKnownManifests) /\ remote = EmptyRemote
NextWellKnown ==
  testData_wellKnown \/ testData_find \/ testData_forTier \/ testData_getCurrentTier
SpecWellKnown == InitWellKnown /\ [][NextWellKnown]_vars

(***************************************************************************)
(* The lifecycle of the fixtures: seed a tier, clean up, seed the tier      *)
(* again.                                                                   *)
(***************************************************************************)
LifecycleRuns == 3

reseed_seedAll(r) ==
  /\ runNo[r] \in {0, 2}
  /\ \E tier \in Tiers :
       /\ runNo[r] = 2 => tier = prev[r].args.tier
       /\ seedAllWith(r, << <<tier>> >>, LifecycleRuns)

reseed_cleanupAll(r) ==
  /\ runNo[r] = 1
  /\ BeginWithin(r, [script |-> "cleanup", tier |-> "B", dryRun |-> dryRunOf(<<>>),
                     argv |-> <<>>], LifecycleRuns)

ReseedProc(r) ==
  \/ reseed_seedAll(r)
  \/ reseed_cleanupAll(r)
  \/ authenticate(r)
  \/ seedProducts_filter(r)
  \/ seedProducts_getProduct(r)
  \/ seedProducts_createProduct(r)
  \/ seedCustomers_filter(r)
  \/ seedCustomers_getCustomerByEmail(r)
  \/ seedCustomers_createCustomer(r)
  \/ seedCoupons_filter(r)
  \/ seedCoupons_getCouponByCode(r)
  \/ createCouponRule_postSalesRules(r)
  \/ createCouponRule_postCoupons(r)
  \/ deleteProducts_search(r)
  \/ deleteProducts_each(r)
  \/ deleteCustomers_search(r)
  \/ deleteCustomers_each(r)
  \/ deleteCoupons_search(r)
  \/ deleteCoupons_each(r)

NextReseed == ReseedProc(1)
SpecReseed == Init /\ [][NextReseed]_vars

\* the scripts started in any environment, configured or not
InitConfig == InitWith(Envs)
SpecConfig == InitConfig /\ [][Next]_vars

(***************************************************************************)
(* What the runs are checked against.                                       *)
(***************************************************************************)
CreateOps == {"POST /products", "POST /customers", "POST /salesRules", "POST /coupons"}
DeleteOps == {"DELETE /products", "DELETE /customers", "DELETE /salesRules"}
SearchOps == {"GET /products like", "GET /customers/search like",
              "GET /salesRules/search like"}
AuthOp == "POST /integration/admin/token"

OpsOf(l, ops) == SelectSeq(l, LAMBDA c : c.op \in ops)
KeysOf(l) == [i \in 1..Len(l) |-> l[i].key]
Skus(l) == [i \in 1..Len(l) |-> l[i].sku]
Emails(l) == [i \in 1..Len(l) |-> l[i].email]
Codes(l) == [i \in 1..Len(l) |-> l[i].code]
RuleIds(l) == [i \in 1..Len(l) |-> l[i].rule_id]
Created(o) == {o[i].key : i \in {j \in 1..Len(o) : o[j].outcome = "created"}}

Seeding(r) == args[r].script = "seed"
Cleaning(r) == args[r].script = "cleanup"

\* the run is the second of two completed-or-running seed runs of one tier,
\* one right after the other, with no other writer
SecondSeed(r) ==
  /\ Seeding(r)
  /\ prev[r].args.script = "seed"
  /\ prev[r].args.tier = args[r].tier
  /\ prev[r].pc = "done"
  /\ ~interfered

NoDuplicateKey ==
  /\ \A p, q \in remote.products : p.sku = q.sku => p = q
  /\ \A c, d \in remote.customers : c.email = d.email => c = d
  /\ \A c, d \in remote.coupons : c.code = d.code => c = d

\* the create requests of the run that belong to the fixtures of `keys`
\* (SKUs, emails, coupon codes); a rule belongs to the coupon of its name
CreateCallsFor(r, keys) ==
  {i \in 1..Len(log[r]) :
     /\ log[r][i].op \in CreateOps
     /\ IF log[r][i].op = "POST /salesRules"
        THEN \E c \in Range(manifest.coupons) :
               c.name = log[r][i].key /\ c.code \in keys
        ELSE log[r][i].key \in keys}

\* C1: seeding twice in a row for one tier, with no other writer, leaves no
\* two remote records with one SKU, email or coupon code, and the second
\* run sends no create request for a fixture the first run created.
C1_SeedTwiceNoCreate ==
  \A r \in Procs :
    SecondSeed(r) =>
      /\ NoDuplicateKey
      /\ CreateCallsFor(r, Created(prev[r].outcomes.products)
                           \cup Created(prev[r].outcomes.customers)
                           \cup Created(prev[r].outcomes.coupons)) = {}

\* C2: a fixture is in the tier selection for T (the three getters of
\* test-data.ts, and the three filters of a seed run) exactly when T is
\* one of the fixture's tiers.
C2_TierSelection ==
  /\ \A t \in Tiers :
       /\ \A f \in Range(manifest.products) :
            f \in Range(getProductsForTier(t)) <=> t \in Range(f.tier)
       /\ \A f \in Range(manifest.customers) :
            f \in Range(getCustomersForTier(t)) <=> t \in Range(f.tier)
       /\ \A f \in Range(manifest.coupons) :
            f \in Range(getCouponsForTier(t)) <=> t \in Range(f.tier)
  /\ \A r \in Procs :
       Seeding(r) =>
         /\ pc[r] \notin {"auth", "exit", "seedProducts"} =>
              \A f \in Range(manifest.products) :
                f \in Range(sel[r].products) <=> args[r].tier \in Range(f.tier)
         /\ pc[r] \in {"getCustomerByEmail", "createCustomer", "seedCoupons",
                       "getCouponByCode", "postSalesRules", "postCoupons", "done"} =>
              \A f \in Range(manifest.customers) :
                f \in Range(sel[r].customers) <=> args[r].tier \in Range(f.tier)
         /\ pc[r] \in {"getCouponByCode", "postSalesRules", "postCoupons", "done"} =>
              \A f \in Range(manifest.coupons) :
                f \in Range(sel[r].coupons) <=> args[r].tier \in Range(f.tier)

\* a seed run has selected its products: one is in, one is out
C2_Witness ==
  \E r \in Procs :
    /\ Seeding(r) /\ pc[r] = "getProduct"
    /\ Len(sel[r].products) = 1
    /\ Len(manifest.products) = 2

\* C3: a dry-run cleanup sends no delete request, whatever the remote
\* holds: it authenticates and searches, and the remote stays as it was.
C3_DryRunNoDelete ==
  \A r \in Procs :
    (Cleaning(r) /\ args[r].dryRun) =>
      /\ \A i \in 1..Len(log[r]) : log[r][i].op \in SearchOps \cup {AuthOp}
      /\ ~interfered => remote = snap[r]

\* a dry run has gone through records it found
C3_Witness ==
  \E r \in Procs :
    /\ Cleaning(r) /\ args[r].dryRun /\ pc[r] = "done"
    /\ stats[r].products.deleted = 2
    /\ stats[r].coupons.deleted = 1

\* the run is a completed non-dry cleanup that followed a completed dry
\* run on the same, unchanged remote state
DryThenReal(r) ==
  /\ Cleaning(r) /\ ~args[r].dryRun /\ pc[r] = "done"
  /\ prev[r].args.script = "cleanup" /\ prev[r].args.dryRun /\ prev[r].pc = "done"
  /\ ~interfered

Kinds == {"products", "customers", "coupons"}
SearchOpOf(k) ==
  CASE k = "products" -> "GET /products like"
    [] k = "customers" -> "GET /customers/search like"
    [] k = "coupons" -> "GET /salesRules/search like"
DeleteOpOf(k) ==
  CASE k = "products" -> "DELETE /products"
    [] k = "customers" -> "DELETE /customers"
    [] k = "coupons" -> "DELETE /salesRules"
SearchOk(l, k) == \E i \in 1..Len(l) : l[i].op = SearchOpOf(k) /\ l[i].res = "ok"
Deletes(l, k) == OpsOf(l, {DeleteOpOf(k)})
DeletesWith(l, k, res) == SelectSeq(Deletes(l, k), LAMBDA c : c.res = res)

\* C4, as claimed: the 'deleted' count of the dry run equals the 'deleted'
\* count of the non-dry run on the same remote state, whatever the delete
\* calls answer (stated for the runs whose searches both succeeded).
C4_DryCountIsRealCount ==
  \A r \in Procs :
    DryThenReal(r) =>
      \A k \in Kinds :
        (SearchOk(prev[r].log, k) /\ SearchOk(log[r], k)) =>
          prev[r].stats[k].deleted = stats[r][k].deleted

\* C4, amended: when both searches of a kind succeed, the 'deleted' count
\* of the dry run is the number of records found, which is the 'found'
\* count of the non-dry run and the number of delete requests it sends;
\* the non-dry 'deleted' count is the number of those that succeeded, so
\* the two counts are equal exactly when no delete request failed.
C4_DryCountIsFoundCount ==
  \A r \in Procs :
    DryThenReal(r) =>
      \A k \in Kinds :
        (SearchOk(prev[r].log, k) /\ SearchOk(log[r], k)) =>
          /\ prev[r].stats[k].deleted = stats[r][k].found
          /\ stats[r][k].found = Len(Deletes(log[r], k))
          /\ stats[r][k].deleted = Len(DeletesWith(log[r], k, "ok"))
          /\ stats[r][k].failed = Len(DeletesWith(log[r], k, "err"))
          /\ stats[r][k].deleted + stats[r][k].failed = stats[r][k].found
          /\ (prev[r].stats[k].deleted = stats[r][k].deleted) <=> (stats[r][k].failed = 0)

\* a dry run counted two products, the non-dry run after it deleted one
C4_Witness ==
  \E r \in Procs :
    /\ DryThenReal(r)
    /\ SearchOk(prev[r].log, "products") /\ SearchOk(log[r], "products")
    /\ prev[r].stats.products.deleted = 2
    /\ stats[r].products.deleted = 1
    /\ stats[r].products.failed = 1

\* C5: a coupon-code create request comes right after a successful
\* rule-create request of the same client, and carries the rule_id that
\* request returned.
C5_CouponAfterRule ==
  \A r \in Procs :
    \A i \in 1..Len(log[r]) :
      log[r][i].op = "POST /coupons" =>
        /\ i > 1
        /\ log[r][i - 1].op = "POST /salesRules"
        /\ log[r][i - 1].res = "ok"
        /\ log[r][i].rule_id = log[r][i - 1].rule_id
        /\ log[r][i].rule_id > 0

\* a coupon code was created for the rule created just before
C5_Witness ==
  \E r \in Procs :
    \E i \in 2..Len(log[r]) :
      /\ log[r][i].op = "POST /coupons" /\ log[r][i].res = "ok"
      /\ \E c \in remote.coupons :
           c.code = log[r][i].key /\ c.rule_id = log[r][i - 1].rule_id

\* the requests of the run with one of `ops` and the key `key`
CallsOf(r, ops, key) ==
  {i \in 1..Len(log[r]) : log[r][i].op \in ops /\ log[r][i].key = key}
AnyRes(r, ops, key, res) == \E i \in CallsOf(r, ops, key) : log[r][i].res \in res

\* C6: when the rule-create request succeeds and the coupon-code create
\* request fails, no delete request follows, the rule stays remote with no
\* coupon code, the run records a failure for the coupon and goes on.
C6_OrphanRuleRecordedFailed ==
  \A r \in Procs :
    \A i \in 2..Len(log[r]) :
      ( /\ log[r][i].op = "POST /coupons" /\ log[r][i].res # "ok"
        /\ log[r][i - 1].op = "POST /salesRules" /\ log[r][i - 1].res = "ok" ) =>
        /\ \A j \in i..Len(log[r]) : log[r][j].op \notin DeleteOps
        /\ \E x \in remote.rules : x.rule_id = log[r][i - 1].rule_id
        /\ \A c \in remote.coupons : c.rule_id # log[r][i - 1].rule_id
        /\ \E k \in 1..Len(outcomes[r].coupons) :
             /\ outcomes[r].coupons[k].key = log[r][i].key
             /\ outcomes[r].coupons[k].outcome = "failed"
        /\ pc[r] # "exit"

\* the fixtures of a kind are taken in the order selected, one outcome each
InOrder(outs, keys) ==
  /\ Len(outs) <= Len(keys)
  /\ \A i \in 1..Len(outs) : outs[i].key = keys[i]

\* C7: a failed create or delete request does not end the batch: an
\* authenticated run never exits, a completed seed run has attempted every
\* selected fixture of every kind once and in order, and a completed
\* cleanup run has sent one delete request for every record found (none in
\* a dry run, which counts each).
C7_FailureDoesNotAbort ==
  \A r \in Procs :
    /\ token[r] => pc[r] # "exit"
    /\ Seeding(r) =>
         /\ InOrder(outcomes[r].products, Skus(sel[r].products))
         /\ InOrder(outcomes[r].customers, Emails(sel[r].customers))
         /\ InOrder(outcomes[r].coupons, Codes(sel[r].coupons))
    /\ (Seeding(r) /\ pc[r] = "done") =>
         /\ sel[r].products = seedProducts_select(args[r].tier)
         /\ sel[r].customers = seedCustomers_select(args[r].tier)
         /\ sel[r].coupons = seedCoupons_select(args[r].tier)
         /\ KeysOf(OpsOf(log[r], {"GET /products"})) = Skus(sel[r].products)
         /\ KeysOf(OpsOf(log[r], {"GET /customers/search"})) = Emails(sel[r].customers)
         /\ KeysOf(OpsOf(log[r], {"GET /coupons/search"})) = Codes(sel[r].coupons)
         /\ Len(outcomes[r].products) = Len(sel[r].products)
         /\ Len(outcomes[r].customers) = Len(sel[r].customers)
         /\ Len(outcomes[r].coupons) = Len(sel[r].coupons)
    /\ (Cleaning(r) /\ pc[r] = "done") =>
         /\ \A k \in Kinds : \E i \in 1..Len(log[r]) : log[r][i].op = SearchOpOf(k)
         /\ \A k \in Kinds : stats[r][k].found = Len(found[r][k])
         /\ args[r].dryRun => \A k \in Kinds : stats[r][k].deleted = stats[r][k].found
         /\ ~args[r].dryRun =>
              /\ KeysOf(Deletes(log[r], "products")) = Skus(found[r].products)
              /\ KeysOf(Deletes(log[r], "customers")) = Emails(found[r].customers)
              /\ RuleIds(Deletes(log[r], "coupons")) = RuleIds(found[r].coupons)

\* a seed run went on after a failed create and ended; so did a cleanup
\* run after a failed delete
C7_Witness ==
  \E r \in Procs :
    /\ pc[r] = "done"
    /\ \/ /\ Seeding(r)
          /\ Len(outcomes[r].products) = 2
          /\ outcomes[r].products[1].outcome = "failed"
          /\ AnyRes(r, {"POST /products"}, outcomes[r].products[1].key, {"err"})
          /\ outcomes[r].products[2].outcome = "created"
          /\ Len(outcomes[r].coupons) > 0
       \/ /\ Cleaning(r)
          /\ stats[r].products.failed = 1
          /\ stats[r].products.deleted = 1
          /\ Deletes(log[r], "products")[1].res = "err"
          /\ stats[r].coupons.deleted = 1

\* what the claim says of one processed fixture: found by the check, the
\* fixture 'already exists' and no create request is sent; absent and
\* created, it is 'created'; a failed create request makes it 'failed'
AsClaimed(outcome, found_, createSent, createOk, createFailed) ==
  /\ outcome \in {"exists", "created", "failed"}
  /\ found_ => (outcome = "exists" /\ ~createSent)
  /\ (~found_ /\ createOk) => outcome = "created"
  /\ createFailed => outcome = "failed"

\* C8: every selected fixture of a seed run is processed once and gets
\* one outcome: 'already exists' when the existence check finds a record
\* (and no create request is sent), 'created' when it finds none and the
\* create succeeds, 'failed' when the create request fails.
C8_OutcomeByCheckAndCreate ==
  \A r \in Procs :
    Seeding(r) =>
      /\ InOrder(outcomes[r].products, Skus(sel[r].products))
      /\ InOrder(outcomes[r].customers, Emails(sel[r].customers))
      /\ InOrder(outcomes[r].coupons, Codes(sel[r].coupons))
      /\ \A i \in 1..Len(outcomes[r].products) :
           LET key == sel[r].products[i].sku
           IN  AsClaimed(outcomes[r].products[i].outcome,
                 AnyRes(r, {"GET /products"}, key, {"ok"}),
                 CallsOf(r, {"POST /products"}, key) # {},
                 AnyRes(r, {"POST /products"}, key, {"ok"}),
                 AnyRes(r, {"POST /products"}, key, {"err", "dup"}))
      /\ \A i \in 1..Len(outcomes[r].customers) :
           LET key == sel[r].customers[i].email
           IN  AsClaimed(outcomes[r].customers[i].outcome,
                 AnyRes(r, {"GET /customers/search"}, key, {"ok"}),
                 CallsOf(r, {"POST /customers"}, key) # {},
                 AnyRes(r, {"POST /customers"}, key, {"ok"}),
                 AnyRes(r, {"POST /customers"}, key, {"err", "dup"}))
      /\ \A i \in 1..Len(outcomes[r].coupons) :
           LET key == sel[r].coupons[i].code
               name == sel[r].coupons[i].name
           IN  AsClaimed(outcomes[r].coupons[i].outcome,
                 AnyRes(r, {"GET /coupons/search"}, key, {"ok"}),
                 CallsOf(r, {"POST /salesRules"}, name) # {},
                 AnyRes(r, {"POST /coupons"}, key, {"ok"}),
                 \/ AnyRes(r, {"POST /salesRules"}, name, {"err"})
                 \/ AnyRes(r, {"POST /coupons"}, key, {"err", "dup"}))

\* C9: a seed run changes no record the remote held before the run: for a
\* fixture whose natural key was present, it sends no create, update or
\* delete request, and every record of before is there unchanged after.
C9_ExistingUntouched ==
  \A r \in Procs :
    Seeding(r) =>
      /\ \A i \in 1..Len(log[r]) :
           log[r][i].op \in CreateOps \cup {AuthOp, "GET /products",
                                           "GET /customers/search", "GET /coupons/search"}
      /\ \A f \in Range(manifest.products) :
           (\E p \in snap[r].products : p.sku = f.sku) =>
             CallsOf(r, CreateOps, f.sku) = {}
      /\ \A f \in Range(manifest.customers) :
           (\E c \in snap[r].customers : c.email = f.email) =>
             CallsOf(r, CreateOps, f.email) = {}
      /\ \A f \in Range(manifest.coupons) :
           (\E c \in snap[r].coupons : c.code = f.code) =>
             CallsOf(r, CreateOps, f.code) \cup CallsOf(r, CreateOps, f.name) = {}
      /\ snap[r].products \subseteq remote.products
      /\ snap[r].customers \subseteq remote.customers
      /\ snap[r].rules \subseteq remote.rules
      /\ snap[r].coupons \subseteq remote.coupons

\* C10: a non-dry cleanup run sends a delete request for every remote
\* record its pattern searches return: every product whose SKU is like
\* 'TEST_%', every customer whose email is like '%@qbdigital.test', every
\* rule whose name is like 'Test%', whatever the manifests hold.
C10_CleanupDeletesEveryMatch ==
  \A r \in Procs :
    (Cleaning(r) /\ ~args[r].dryRun /\ pc[r] = "done") =>
      /\ SearchOk(log[r], "products") =>
           /\ Range(found[r].products) =
                {p \in snap[r].products : p.sku[1] = "TEST_"}
           /\ KeysOf(Deletes(log[r], "products")) = Skus(found[r].products)
      /\ SearchOk(log[r], "customers") =>
           /\ Range(found[r].customers) =
                {c \in snap[r].customers : c.email[Len(c.email)] = "@qbdigital.test"}
           /\ KeysOf(Deletes(log[r], "customers")) = Emails(found[r].customers)
      /\ SearchOk(log[r], "coupons") =>
           /\ Range(found[r].coupons) = {x \in snap[r].rules : x.name[1] = "Test"}
           /\ RuleIds(Deletes(log[r], "coupons")) = RuleIds(found[r].coupons)

\* a cleanup run deleted a test product that no manifest entry names
C10_Witness ==
  \E r \in Procs :
    /\ Cleaning(r) /\ ~args[r].dryRun /\ pc[r] = "done"
    /\ \A f \in Range(manifest.products) : f.sku # SkuOld
    /\ AnyRes(r, {"DELETE /products"}, SkuOld, {"ok"})
    /\ AnyRes(r, {"DELETE /products"}, SkuSimple, {"ok"})
    /\ \A p \in remote.products : p.sku = SkuLive

\* C11: when a required configuration value is missing (neither BASE_URL
\* nor url set, or ADMIN_USER or ADMIN_PASS unset), a started script has
\* exited with a non-zero status and has sent no request at all; the
\* remote is as it was.
C11_MissingConfigExitsBeforeCalls ==
  \A r \in Procs :
    ( /\ runNo[r] > 0
      /\ \/ env.BASE_URL = Unset /\ env.url = Unset
         \/ env.ADMIN_USER = Unset
         \/ env.ADMIN_PASS = Unset ) =>
      /\ pc[r] = "exit"
      /\ exitStatus(r) > 0
      /\ log[r] = <<>>
      /\ ~token[r]
      /\ remote = snap[r]

\* a cleanup was started with a base URL under 'url' only and no password
C11_Witness ==
  \E r \in Procs :
    /\ env.BASE_URL = Unset /\ env.url = "set"
    /\ env.ADMIN_USER = "set" /\ env.ADMIN_PASS = Unset
    /\ Cleaning(r) /\ runNo[r] = 2 /\ prev[r].args.script = "seed"
    /\ pc[r] = "exit" /\ remote = UsedRemote

\* C12: when the authentication request of a run fails, the run is over:
\* the process has exited with a non-zero status, the token request is the
\* only request it sent, no fixture has an outcome or a count, and the
\* remote is as it was.
C12_AuthFailureIsFatal ==
  \A r \in Procs :
    ( /\ Len(log[r]) > 0
      /\ log[r][1].op = AuthOp
      /\ log[r][1].res # "ok" ) =>
      /\ pc[r] = "exit"
      /\ exitStatus(r) > 0
      /\ Len(log[r]) = 1
      /\ ~token[r]
      /\ outcomes[r] = NoSel
      /\ stats[r] = NoStats
      /\ found[r] = NoSel
      /\ remote = snap[r]

\* a seed run and, after it, a cleanup run both ended at authentication,
\* with test records on the remote
C12_Witness ==
  \E r \in Procs :
    /\ Cleaning(r) /\ ~args[r].dryRun /\ pc[r] = "exit"
    /\ log[r] = << Call(AuthOp, <<>>, "err", 0) >>
    /\ prev[r].args.script = "seed" /\ prev[r].pc = "exit"
    /\ remote = UsedRemote

\* the natural key of the fixture a run is about to create, its existence
\* check having reported it absent
CreatePcs == {"createProduct", "createCustomer", "postSalesRules"}
AboutToCreate(r) ==
  CASE pc[r] = "createProduct" -> sel[r].products[idx[r]].sku
    [] pc[r] = "createCustomer" -> sel[r].customers[idx[r]].email
    [] pc[r] = "postSalesRules" -> sel[r].coupons[idx[r]].code
    [] OTHER -> <<>>
CreateStep(r) ==
  \/ seedProducts_createProduct(r)
  \/ seedCustomers_createCustomer(r)
  \/ createCouponRule_postSalesRules(r)

\* the check of the run for the key was answered 'no such record'
CheckedAbsent(r, key) ==
  AnyRes(r, {"GET /products", "GET /customers/search", "GET /coupons/search"},
         key, {"404", "empty"})
Processed(r, key) ==
  \E k \in Kinds : \E i \in 1..Len(outcomes[r][k]) : outcomes[r][k][i].key = key
CreateSent(r, key) ==
  \/ CallsOf(r, {"POST /products", "POST /customers"}, key) # {}
  \/ \E c \in Range(manifest.coupons) :
       c.code = key /\ CallsOf(r, {"POST /salesRules"}, c.name) # {}

\* C13: nothing serializes concurrent seed runs: a run can be started
\* while another is under way; when two runs have both been told that a
\* fixture is absent, neither create step is held back; and two runs that
\* were both told so both send a create request for that natural key.
C13_ConcurrentSeedsBothCreate ==
  \A r, s \in Procs :
    r # s =>
      /\ runNo[r] = 0 => ENABLED seedAllConcurrently(r)
      /\ ( /\ pc[r] \in CreatePcs /\ pc[s] = pc[r]
           /\ AboutToCreate(r) = AboutToCreate(s) ) =>
           (ENABLED CreateStep(r) /\ ENABLED CreateStep(s))
      /\ \A key \in {SkuSimple, SkuOos, EmailBasic, EmailEu, CodeTen, CodeFive} :
           ( /\ CheckedAbsent(r, key) /\ CheckedAbsent(s, key)
             /\ Processed(r, key) /\ Processed(s, key) ) =>
             (CreateSent(r, key) /\ CreateSent(s, key))

\* two runs were both told that a product and a coupon are absent; both
\* sent the creates: one product create was rejected, and two rules of
\* one name are on the remote
C13_Witness ==
  \E r, s \in Procs :
    /\ r # s
    /\ AnyRes(r, {"GET /products"}, SkuSimple, {"404"})
    /\ AnyRes(s, {"GET /products"}, SkuSimple, {"404"})
    /\ AnyRes(r, {"POST /products"}, SkuSimple, {"ok"})
    /\ AnyRes(s, {"POST /products"}, SkuSimple, {"dup"})
    /\ AnyRes(r, {"GET /coupons/search"}, CodeTen, {"empty"})
    /\ AnyRes(s, {"GET /coupons/search"}, CodeTen, {"empty"})
    /\ Cardinality({x \in remote.rules : x.name = RuleTen}) = 2
    /\ Cardinality({c \in remote.coupons : c.code = CodeTen}) = 1
    /\ pc[r] = "done" /\ pc[s] = "done"

\* the run is a seed run for the tier of a completed seed run in which
\* every create request succeeded, with a completed non-dry cleanup run in
\* which every delete request succeeded in between
SeedCleanupSeed(r) ==
  /\ Seeding(r)
  /\ prev[r].args.script = "cleanup" /\ ~prev[r].args.dryRun /\ prev[r].pc = "done"
  /\ \A i \in 1..Len(prev[r].log) :
       prev[r].log[i].op \in DeleteOps => prev[r].log[i].res = "ok"
  /\ prev[r].before.args.script = "seed" /\ prev[r].before.pc = "done"
  /\ prev[r].before.args.tier = args[r].tier
  /\ \A i \in 1..Len(prev[r].before.log) :
       prev[r].before.log[i].op \in CreateOps => prev[r].before.log[i].res = "ok"

FoundAbsentAndCreateSent(r, checkOp, key, createOp, createKey) ==
  /\ AnyRes(r, {checkOp}, key, {"404", "empty"})
  /\ CallsOf(r, {createOp}, createKey) # {}

C15_CleanupDeletesRulesOnly ==
  \A r \in Procs :
    Cleaning(r) =>
      \A i \in 1..Len(log[r]) :
        /\ log[r][i].op \in {AuthOp} \cup SearchOps \cup DeleteOps
        /\ log[r][i].op \notin {"GET /coupons/search", "POST /coupons", "DELETE /coupons"}
        /\ log[r][i].op = "DELETE /salesRules" =>
             /\ ~args[r].dryRun
             /\ \E j \in 1..Len(found[r].coupons) :
                  found[r].coupons[j].rule_id = log[r][i].rule_id

\* a cleanup removed a rule that had a coupon code, after a dry run that
\* had found it
C15_Witness ==
  \E r \in Procs :
    /\ Cleaning(r) /\ ~args[r].dryRun /\ pc[r] = "done"
    /\ prev[r].args.script = "cleanup" /\ prev[r].args.dryRun
    /\ prev[r].stats.coupons.found = 1
    /\ \E c \in snap[r].coupons : c.code = CodeTen /\ c.rule_id = 6
    /\ \E i \in 1..Len(log[r]) :
         /\ log[r][i].op = "DELETE /salesRules"
         /\ log[r][i].rule_id = 6 /\ log[r][i].res = "ok"

\* C16: no request is repeated within a run, failed or not: a seed run
\* sends at most one request of a kind (check, create; for a coupon the
\* rule create and the code create) for a fixture, a cleanup run at most
\* one search per kind and one delete per record found, and a failed
\* request is followed by the request for the next fixture or record.
C16_NoRetry ==
  \A r \in Procs :
    /\ \A i, j \in 1..Len(log[r]) :
         ( /\ i < j
           /\ log[r][i].op = log[r][j].op
           /\ log[r][i].key = log[r][j].key ) =>
           /\ log[r][i].op = "DELETE /salesRules"
           /\ log[r][i].rule_id # log[r][j].rule_id
    /\ Seeding(r) =>
         /\ \A f \in Range(sel[r].products) :
              Cardinality(CallsOf(r, {"POST /products"}, f.sku)) <= 1
         /\ \A f \in Range(sel[r].customers) :
              Cardinality(CallsOf(r, {"POST /customers"}, f.email)) <= 1
         /\ \A f \in Range(sel[r].coupons) :
              /\ Cardinality(CallsOf(r, {"POST /salesRules"}, f.name)) <= 1
              /\ Cardinality(CallsOf(r, {"POST /coupons"}, f.code)) <= 1
    /\ Cleaning(r) =>
         \A k \in Kinds : Len(Deletes(log[r], k)) <= Len(found[r][k])

\* a seed run ended after a create request had failed and was not sent
\* again; a delete request of the cleanup before it had failed too
C16_Witness ==
  \E r \in Procs :
    /\ Seeding(r) /\ pc[r] = "done"
    /\ AnyRes(r, {"POST /products"}, SkuSimple, {"err"})
    /\ Cardinality(CallsOf(r, {"POST /products"}, SkuSimple)) = 1
    /\ prev[r].args.script = "cleanup" /\ prev[r].pc = "done"
    /\ \E i \in 1..Len(prev[r].log) :
         prev[r].log[i].op = "DELETE /customers" /\ prev[r].log[i].res = "err"
    /\ Len(OpsOf(prev[r].log, {"DELETE /customers"})) = 1

\* C17: no step changes a manifest: whatever tier selections, lookups by
\* id or natural key, seed runs and cleanup runs take place, each manifest
\* holds the same fixtures with the same values in the same order.
C17_ManifestNeverMutated == [][manifest' = manifest]_vars

\* after a seed run and a cleanup run a lookup returned a fixture of the
\* manifest
C17_Witness ==
  /\ runNo[1] = 2 /\ pc[1] = "done" /\ Cleaning(1) /\ prev[1].args.script = "seed"
  /\ prev[1].args.tier = "C" /\ prev[1].pc = "done"
  /\ manifest = ConventionalManifest
  /\ returned = << ConventionalManifest.products[2] >>

\* the places of the manifest entries that name the tier
KeptPlaces(entries, tier) == {i \in 1..Len(entries) : tier \in Range(entries[i].tier)}
\* `result` is the entries at those places, in their order, each once
IsSelectionOf(result, entries, tier) ==
  /\ Len(result) = Cardinality(KeptPlaces(entries, tier))
  /\ \A j \in 1..Len(result) :
       \E i \in KeptPlaces(entries, tier) :
         /\ result[j] = entries[i]
         /\ Cardinality({h \in KeptPlaces(entries, tier) : h < i}) = j - 1
  /\ \A i, j \in 1..Len(result) : i # j => result[i] # result[j]

\* C18: a tier selection is the sub-sequence of the manifest whose entries
\* name the tier, in declaration order and each entry at most once, for
\* the getters of test-data.ts and for the filters of a seed run; a seed
\* run takes the selected fixtures in that order.
C18_SelectionIsSubsequence ==
  /\ \A t \in Tiers :
       /\ IsSelectionOf(getProductsForTier(t), manifest.products, t)
       /\ IsSelectionOf(getCustomersForTier(t), manifest.customers, t)
       /\ IsSelectionOf(getCouponsForTier(t), manifest.coupons, t)
       /\ IsSelectionOf(seedProducts_select(t), manifest.products, t)
       /\ IsSelectionOf(seedCustomers_select(t), manifest.customers, t)
       /\ IsSelectionOf(seedCoupons_select(t), manifest.coupons, t)
  /\ \A r \in Procs :
       (Seeding(r) /\ pc[r] = "done") =>
         /\ IsSelectionOf(sel[r].products, manifest.products, args[r].tier)
         /\ IsSelectionOf(sel[r].customers, manifest.customers, args[r].tier)
         /\ IsSelectionOf(sel[r].coupons, manifest.coupons, args[r].tier)
         /\ KeysOf(outcomes[r].products) = Skus(sel[r].products)
         /\ KeysOf(outcomes[r].customers) = Emails(sel[r].customers)
         /\ KeysOf(outcomes[r].coupons) = Codes(sel[r].coupons)
         /\ KeysOf(OpsOf(log[r], {"GET /products"})) = Skus(sel[r].products)
         /\ KeysOf(OpsOf(log[r], {"GET /customers/search"})) = Emails(sel[r].customers)
         /\ KeysOf(OpsOf(log[r], {"GET /coupons/search"})) = Codes(sel[r].coupons)

\* a seed run for tier B took both products in manifest order and left
\* out the second customer
C18_Witness ==
  \E r \in Procs :
    /\ Seeding(r) /\ pc[r] = "done" /\ args[r].tier = "B"
    /\ manifest = ConventionalManifest
    /\ KeysOf(OpsOf(log[r], {"GET /products"})) = << SkuSimple, SkuOos >>
    /\ KeysOf(outcomes[r].customers) = << EmailBasic >>
    /\ KeysOf(outcomes[r].coupons) = << CodeTen, CodeFive >>

\* the tier the claim gives for a value that was typed
TierAsClaimed(typed) ==
  CASE typed \in {<<"a">>, <<"A">>} -> "A"
    [] typed \in {<<"c">>, <<"C">>} -> "C"
    [] OTHER -> "B"

\* C19: the tier is B whenever none is given: a seed run uses B when its
\* argument is absent or is, upper-cased, none of A, B, C, and the
\* upper-cased argument otherwise; getCurrentTier does the same with
\* TEST_TIER.
C19_DefaultTierIsB ==
  /\ \A r \in Procs :
       Seeding(r) =>
         /\ args[r].tier = IF args[r].argv = <<>> THEN "B"
                           ELSE TierAsClaimed(args[r].argv[1])
         /\ pc[r] \notin {"auth", "exit", "seedProducts"} =>
              sel[r].products = seedProducts_select(
                IF args[r].argv = <<>> THEN "B" ELSE TierAsClaimed(args[r].argv[1]))
  /\ \A i \in 1..Len(returned) :
       returned[i].tier = IF returned[i].TEST_TIER = Undefined THEN "B"
                          ELSE TierAsClaimed(returned[i].TEST_TIER)

\* a seed run started with 'c' selected for tier C, and getCurrentTier
\* answered B for a TEST_TIER of two letters
C19_Witness ==
  \E r \in Procs :
    /\ Seeding(r) /\ pc[r] = "done"
    /\ args[r].argv = << <<"c">> >> /\ args[r].tier = "C"
    /\ Skus(sel[r].products) = << SkuOos >>
    /\ returned = << [TEST_TIER |-> <<"a", "b">>, tier |-> "B"] >>

\* the product fixture of the manifest that has the SKU
FixtureOfSku(sku) ==
  CHOOSE f \in {manifest.products[i] : i \in 1..Len(manifest.products)} : f.sku = sku

WellKnownId(fn) ==
  CASE fn = "getSimpleProduct" -> "simple_product_basic"
    [] fn = "getOutOfStockProduct" -> "simple_product_oos"
    [] fn = "getLowStockProduct" -> "simple_product_low_stock"
    [] fn = "getTestCustomer" -> "test_customer_basic"
    [] fn = "getMultiAddressCustomer" -> "test_customer_multi_address"
    [] fn = "getEUCustomer" -> "test_customer_eu"
    [] fn = "getPercentageCoupon" -> "coupon_10_percent"
    [] fn = "getFixedCoupon" -> "coupon_5_fixed"
    [] fn = "getFreeShippingCoupon" -> "coupon_free_shipping"
WellKnownArray(fn) ==
  CASE fn \in {"getSimpleProduct", "getOutOfStockProduct", "getLowStockProduct"} ->
         manifest.products
    [] fn \in {"getTestCustomer", "getMultiAddressCustomer", "getEUCustomer"} ->
         manifest.customers
    [] OTHER -> manifest.coupons

IsWellKnownAnswer == returned # <<>> /\ "fn" \in DOMAIN returned[1]

\* C21: an accessor of a well-known fixture throws a not-found error when
\* no manifest entry has its id, returns the first entry with that id
\* otherwise, and never returns undefined.
C21_WellKnownOrNotFound ==
  IsWellKnownAnswer =>
    LET fn == returned[1].fn
        result == returned[1].result
        entries == WellKnownArray(fn)
        places == {i \in 1..Len(entries) : entries[i].id = WellKnownId(fn)}
    IN  /\ places = {} => result.threw /\ result.error # "" /\ result.value = <<>>
        /\ places # {} =>
             /\ ~result.threw
             /\ \E i \in places :
                  /\ \A j \in places : i <= j
                  /\ result.value = << entries[i] >>
        /\ ~(~result.threw /\ result.value = <<>>)

\* an accessor threw on a manifest that holds fixtures but not the one it
\* looks up
C21_Witness ==
  /\ IsWellKnownAnswer /\ manifest = UnconventionalManifest
  /\ returned[1].fn = "getEUCustomer"
  /\ returned[1].result.threw /\ returned[1].result.value = <<>>

\* the run in the log sent the rule-create request for the coupon, had it
\* answered, and then had the coupon-code create request fail
FailedAtCodeCreate(lg, coupon) ==
  \E i \in 2..Len(lg) :
    /\ lg[i - 1].op = "POST /salesRules" /\ lg[i - 1].key = coupon.name
    /\ lg[i - 1].res = "ok"
    /\ lg[i].op = "POST /coupons" /\ lg[i].key = coupon.code /\ lg[i].res # "ok"

RulesNamed(rem, name) == Cardinality({x \in rem.rules : x.name = name})

\* the run is past the coupon at place i of its selection
PastCoupon(r, i) ==
  pc[r] = "done" \/ (pc[r] \in {"getCouponByCode", "postSalesRules", "postCoupons"} /\ idx[r] > i)

\* C22: after a seed run that created a coupon's rule and failed to create
\* its code, the next seed run's check by code reports the coupon absent
\* and the run sends another rule-create request with the same name; the
\* rules of that name grow by one with every run that fails at the
\* code-create request.
C22_OrphanRulesAccumulate ==
  \A r \in Procs :
    (Seeding(r) /\ ~interfered) =>
      \A i \in 1..Len(sel[r].coupons) :
        LET coupon == sel[r].coupons[i]
        IN  /\ ( /\ SecondSeed(r) /\ FailedAtCodeCreate(prev[r].log, coupon)
                 /\ PastCoupon(r, i) ) =>
                 /\ CallsOf(r, {"GET /coupons/search"}, coupon.code) # {}
                 /\ ~AnyRes(r, {"GET /coupons/search"}, coupon.code, {"ok"})
                 /\ CallsOf(r, {"POST /salesRules"}, coupon.name) # {}
            /\ FailedAtCodeCreate(log[r], coupon) =>
                 RulesNamed(remote, coupon.name) = RulesNamed(snap[r], coupon.name) + 1

\* the check request of each kind of create request, and the answers of
\* the check the claim calls 'absent'
CheckOf(op) ==
  CASE op = "POST /products" -> "GET /products"
    [] op = "POST /customers" -> "GET /customers/search"
    [] op = "POST /salesRules" -> "GET /coupons/search"
AbsentAnswers(op) ==
  CASE op = "POST /products" -> {"404"}
    [] op = "POST /customers" -> {"empty", "err"}
    [] op = "POST /salesRules" -> {"empty", "err"}

\* the key of the check that belongs to a create request: the SKU, the
\* email, and for a rule the code of the coupon that has the rule's name
CheckKeyOf(call) ==
  IF call.op = "POST /salesRules"
  THEN (CHOOSE c \in Range(manifest.coupons) : c.name = call.key).code
  ELSE call.key

\* C23: a seed run sends a create request for a fixture only right after
\* the fixture's check answered 'absent' in the same run: for a product on
\* a 404 only, any other error ending the product with a failure and no
\* create request; for a customer or a coupon on an empty result and on
\* any error of the check, the create request following a failed check.
C23_CreateOnlyAfterAbsent ==
  \A r \in Procs :
    Seeding(r) =>
      \A i \in 1..Len(log[r]) :
        LET call == log[r][i]
            answered == i < Len(log[r]) \/ pc[r] \notin CreatePcs
        IN  /\ call.op \in {"POST /products", "POST /customers", "POST /salesRules"} =>
                 /\ i > 1
                 /\ log[r][i - 1].op = CheckOf(call.op)
                 /\ log[r][i - 1].key = CheckKeyOf(call)
                 /\ log[r][i - 1].res \in AbsentAnswers(call.op)
            /\ (call.op = "GET /products" /\ call.res = "err" /\ answered) =>
                 /\ CallsOf(r, {"POST /products"}, call.key) = {}
                 /\ \E k \in 1..Len(outcomes[r].products) :
                      outcomes[r].products[k] = Outcome(call.key, "failed")
            /\ (call.op = "GET /customers/search" /\ call.res # "ok" /\ answered) =>
                 /\ i < Len(log[r])
                 /\ log[r][i + 1].op = "POST /customers" /\ log[r][i + 1].key = call.key
            /\ (call.op = "GET /coupons/search" /\ call.res # "ok" /\ answered) =>
                 /\ i < Len(log[r])
                 /\ log[r][i + 1].op = "POST /salesRules"
                 /\ CheckKeyOf(log[r][i + 1]) = call.key

\* one run had a product check fail with no create request for the SKU,
\* and a customer check fail with the create request sent after it
C23_Witness ==
  \E r \in Procs :
    /\ Seeding(r) /\ pc[r] = "done"
    /\ AnyRes(r, {"GET /products"}, SkuSimple, {"err"})
    /\ CallsOf(r, {"POST /products"}, SkuSimple) = {}
    /\ AnyRes(r, {"GET /customers/search"}, EmailBasic, {"err"})
    /\ CallsOf(r, {"POST /customers"}, EmailBasic) # {}

\* the three delete functions: the kind each counts for, its search
\* request, its delete request and its place in the run
DeleteFunctions ==
  { [kind |-> "products", search |-> "GET /products like",
     delete |-> "DELETE /products", at |-> {"deleteProducts", "deleteProduct"}],
    [kind |-> "customers", search |-> "GET /customers/search like",
     delete |-> "DELETE /customers", at |-> {"deleteCustomers", "deleteCustomer"}],
    [kind |-> "coupons", search |-> "GET /salesRules/search like",
     delete |-> "DELETE /salesRules", at |-> {"deleteCoupons", "deleteSalesRule"}] }

Answered(r, op, res) ==
  Cardinality({i \in 1..Len(log[r]) : log[r][i].op = op /\ log[r][i].res \in res})

\* C24: the counters of deleteProducts, deleteCustomers and deleteCoupons:
\* deleted + failed <= found; in a dry run deleted = found and failed = 0
\* when the function returns; otherwise deleted counts the delete calls
\* that returned true and failed those that threw, a 'not found' counting
\* in neither; a failed search leaves all three at 0 and the function
\* returns normally.
C24_CleanupCounters ==
  \A r \in Procs :
    Cleaning(r) =>
      \A fn \in DeleteFunctions :
        LET stat == stats[r][fn.kind]
            returns == pc[r] \notin fn.at \cup {"auth", "exit", "rejected"}
        IN  /\ stat.deleted + stat.failed <= stat.found
            /\ (args[r].dryRun /\ returns) =>
                 stat.deleted = stat.found /\ stat.failed = 0
            /\ ~args[r].dryRun =>
                 /\ stat.deleted = Answered(r, fn.delete, {"ok"})
                 /\ stat.failed = Answered(r, fn.delete, {"err"})
                 /\ returns =>
                      Answered(r, fn.delete, {"404"}) =
                        stat.found - stat.deleted - stat.failed
            /\ Answered(r, fn.search, {"err"}) > 0 =>
                 /\ stat = NoStat
                 /\ returns
                 /\ Answered(r, fn.delete, {"ok", "err", "404"}) = 0

\* a run that is no dry run found two products: one delete call threw and
\* one was answered 'not found'
C24_Witness ==
  \E r \in Procs :
    /\ Cleaning(r) /\ ~args[r].dryRun /\ pc[r] = "done"
    /\ stats[r].products = [found |-> 2, deleted |-> 0, failed |-> 1]
    /\ Answered(r, "DELETE /products", {"404"}) = 1

\* the part of a run a request belongs to: authentication, products,
\* customers, coupons
PartOf(op) ==
  CASE op = "POST /integration/admin/token" -> 0
    [] op \in {"GET /products", "POST /products", "GET /products like",
               "DELETE /products"} -> 1
    [] op \in {"GET /customers/search", "POST /customers",
               "GET /customers/search like", "DELETE /customers"} -> 2
    [] OTHER -> 3

\* the requests of a run come one part after the other, behind one
\* answered authentication
OnePartAfterTheOther(r) ==
  /\ log[r] # <<>> =>
       /\ log[r][1].op = "POST /integration/admin/token"
       /\ Len(log[r]) > 1 => log[r][1].res = "ok"
  /\ \A i, j \in 1..Len(log[r]) :
       i < j => /\ PartOf(log[r][i].op) <= PartOf(log[r][j].op)
                /\ PartOf(log[r][j].op) > 0

\* a step of a run sends at most one request and has its answer before
\* the step ends
OneRequestPerStep(r) ==
  \/ log'[r] = log[r]
  \/ log'[r] = <<>>
  \/ /\ Len(log'[r]) = Len(log[r]) + 1
     /\ SubSeq(log'[r], 1, Len(log[r])) = log[r]
     /\ log'[r][Len(log'[r])].res \in {"ok", "err", "404", "empty", "dup"}

\* C25: a seed run and a cleanup run are strictly sequential:
\* authentication completes before any fixture call, all product calls
\* come before the first customer call, all customer calls before the
\* first coupon call, and a run has at most one request in flight.
C25_StrictlySequential ==
  /\ [](\A r \in Procs : OnePartAfterTheOther(r))
  /\ [][\A r \in Procs : OneRequestPerStep(r)]_vars

\* a seed run and, after it, a cleanup run each sent requests of all three
\* kinds
C25_Witness ==
  \E r \in Procs :
    /\ Cleaning(r) /\ pc[r] = "done" /\ prev[r].args.script = "seed"
    /\ \A part \in 0..3 :
         /\ \E i \in 1..Len(log[r]) : PartOf(log[r][i].op) = part
         /\ \E i \in 1..Len(prev[r].log) : PartOf(prev[r].log[i].op) = part

\* C26: with a valid configuration and after a successful authentication,
\* a seed run or a cleanup run always reaches its completion message and
\* never exits with a non-zero status, whatever the individual check,
\* search, create and delete calls answer.
C26_AuthenticatedRunCompletes ==
  /\ [](\A r \in Procs : token[r] => exitStatus(r) # 1 /\ pc[r] # "rejected")
  /\ \A r \in Procs : token[r] ~> (token[r] /\ pc[r] = "done")

\* a cleanup run completed although a delete call threw and a search failed
C26_Witness ==
  \E r \in Procs :
    /\ Cleaning(r) /\ ~args[r].dryRun /\ token[r] /\ pc[r] = "done"
    /\ Answered(r, "DELETE /products", {"err"}) = 1
    /\ Answered(r, "GET /customers/search like", {"err"}) = 1

TokenRequest == "POST /integration/admin/token"
HealthRequest == "GET /store/storeConfigs"

\* C27: MagentoApiClient sends a product, customer, coupon, sales-rule or
\* order request only while it holds a token: a method called with no
\* token authenticates first and sends nothing further when that fails,
\* and once a token is held no method authenticates again; only the
\* request of healthCheck is sent without this.
C27_RequestsOnlyWithToken ==
  \A r \in Procs :
    pc[r] \in {"client", "authenticate", "request"} =>
      /\ token[r] <=> \E j \in 1..Len(log[r]) :
                        log[r][j].op = TokenRequest /\ log[r][j].res = "ok"
      /\ \A i \in 1..Len(log[r]) :
           /\ log[r][i].op \notin {TokenRequest, HealthRequest} =>
                \E j \in 1..(i - 1) :
                  log[r][j].op = TokenRequest /\ log[r][j].res = "ok"
           /\ log[r][i].op = TokenRequest =>
                \A j \in 1..(i - 1) :
                  ~(log[r][j].op = TokenRequest /\ log[r][j].res = "ok")
      /\ (invoked[r].threw /\ pc[r] = "client") =>
           /\ log[r][Len(log[r])].op = TokenRequest
           /\ log[r][Len(log[r])].res = "err"

\* a client sent the request of healthCheck with no token, failed to
\* authenticate for a method and sent nothing for it, then authenticated
\* for createCouponRule and sent its two requests
C27_Witness ==
  \E r \in Procs :
    /\ pc[r] = "client" /\ Len(log[r]) = 5
    /\ log[r][1].op = HealthRequest
    /\ log[r][2].op = TokenRequest /\ log[r][2].res = "err"
    /\ log[r][3].op = TokenRequest /\ log[r][3].res = "ok"
    /\ log[r][4].op = "POST /salesRules"
    /\ log[r][5].op = "POST /coupons"

\* C28: the product create payload of every product fixture: status 2
\* when the fixture's status token is 'disabled' and 1 for any other or a
\* missing token, visibility 4, tax_class_id '2' and attribute_set_id 4,
\* and sku, name, price and qty copied unchanged.
C28_ProductPayloadMapping ==
  \A r \in Procs :
    Seeding(r) =>
      \A i \in 1..Len(log[r]) :
        log[r][i].op = "POST /products" =>
          LET fixture == FixtureOfSku(log[r][i].key)
              payload == log[r][i].payload
          IN  /\ payload.status =
                   IF Has(fixture, "status") /\ fixture.status = "disabled"
                   THEN 2 ELSE 1
              /\ payload.visibility = 4
              /\ payload.tax_class_id = "2"
              /\ payload.attribute_set_id = 4
              /\ payload.sku = fixture.sku
              /\ payload.name = fixture.name
              /\ payload.price = fixture.price
              /\ payload.stock_item.qty = fixture.qty

\* one run sent status 1 for a fixture whose token is neither 'enabled'
\* nor 'disabled', the run before it status 1 for a fixture with no token
C28_Witness ==
  \E r \in Procs :
    /\ Seeding(r) /\ manifest = UnconventionalManifest
    /\ \E i \in CallsOf(r, {"POST /products"}, SkuSimple) :
         log[r][i].payload.status = 1 /\ log[r][i].payload.name = "Test Simple Product"
    /\ \E i \in 1..Len(prev[r].log) :
         /\ prev[r].log[i].op = "POST /products" /\ prev[r].log[i].key = SkuOos
         /\ prev[r].log[i].payload.status = 1

\* the customer fixture of the manifest that has the email
FixtureOfEmail(email) ==
  CHOOSE f \in {manifest.customers[i] : i \in 1..Len(manifest.customers)} :
    f.email = email

\* the word is part of the address type
TypeNames(type, word) == \E i \in 1..Len(type) : type[i] = word

\* C29: in the create payload of a seeded customer the addresses keep the
\* manifest order; for every address default_shipping is true exactly
\* when the type contains 'shipping' and default_billing exactly when it
\* contains 'billing'; firstname and lastname are the address's own when
\* given (an empty name is not given) and the customer's otherwise.
C29_AddressFlagsAndNames ==
  \A r \in Procs :
    Seeding(r) =>
      \A i \in 1..Len(log[r]) :
        log[r][i].op = "POST /customers" =>
          LET fixture == FixtureOfEmail(log[r][i].key)
              given == IF Has(fixture, "addresses") THEN fixture.addresses ELSE <<>>
              sent == log[r][i].payload.addresses
          IN  /\ Len(sent) = Len(given)
              /\ \A k \in 1..Len(given) :
                   /\ sent[k].city = given[k].city
                   /\ sent[k].default_shipping = TypeNames(given[k].type, "shipping")
                   /\ sent[k].default_billing = TypeNames(given[k].type, "billing")
                   /\ sent[k].firstname =
                        IF Has(given[k], "firstname") /\ given[k].firstname # ""
                        THEN given[k].firstname ELSE fixture.firstname
                   /\ sent[k].lastname =
                        IF Has(given[k], "lastname") /\ given[k].lastname # ""
                        THEN given[k].lastname ELSE fixture.lastname

\* a run sent a customer with an address that is both defaults under the
\* customer's name and one that is the shipping default only, and a
\* customer with an address that is neither
C29_Witness ==
  \E r \in Procs :
    /\ Seeding(r)
    /\ \E i \in CallsOf(r, {"POST /customers"}, EmailBasic) :
         log[r][i].payload.addresses =
           << [firstname |-> "Test", lastname |-> "Customer", city |-> "Leeds",
               default_shipping |-> TRUE, default_billing |-> TRUE],
              [firstname |-> "Ship", lastname |-> "Customer", city |-> "York",
               default_shipping |-> TRUE, default_billing |-> FALSE] >>
    /\ \E i \in CallsOf(r, {"POST /customers"}, EmailEu) :
         /\ ~log[r][i].payload.addresses[1].default_shipping
         /\ ~log[r][i].payload.addresses[1].default_billing
         /\ log[r][i].payload.addresses[2].default_billing

ShippingSteps == {"selectFlatRateShipping", "selectFreeShipping"}
PaymentSteps == {"selectCheckMoneyOrder", "selectBankTransfer", "selectCashOnDelivery"}

\* the place of a step in the flow as the claim gives it
PlaceOfStep(step) ==
  CASE step = "navigateToCheckout" -> 1
    [] step = "enterEmail" -> 2
    [] step = "fillShippingAddress" -> 3
    [] step \in ShippingSteps -> 4
    [] step = "clickNext" -> 5
    [] step \in PaymentSteps -> 6
    [] step = "clickPlaceOrder" -> 7
    [] step = "verifySuccessPage" -> 8

\* C30: completeGuestCheckout takes its steps in one order, each after the
\* one before completed: navigate, email, shipping address, one shipping
\* method (flat rate by default, free otherwise), next, one payment method
\* (check/money order by default), place order, verify; a step that fails
\* ends the flow, so no order is placed before a shipping method and a
\* payment method were selected.
C30_CheckoutStepsInOrder ==
  LET steps == checkout.steps
  IN  /\ \A i \in 1..Len(steps) :
           /\ PlaceOfStep(steps[i].step) = i
           /\ i < Len(steps) => steps[i].res = "ok"
      /\ (steps # <<>> /\ steps[Len(steps)].res = "throw") => checkout.pc = "threw"
      /\ Len(steps) >= 4 =>
           /\ checkout.given[1] \in {Unset, "flatrate"} =>
                steps[4].step = "selectFlatRateShipping"
           /\ checkout.given[1] \notin {Unset, "flatrate"} =>
                steps[4].step = "selectFreeShipping"
      /\ (Len(steps) >= 6 /\ checkout.given[2] \in {Unset, "checkmo"}) =>
           steps[6].step = "selectCheckMoneyOrder"
      /\ (\E i \in 1..Len(steps) : steps[i].step = "clickPlaceOrder") =>
           /\ Cardinality({i \in 1..Len(steps) :
                 steps[i].step \in ShippingSteps /\ steps[i].res = "ok"}) = 1
           /\ Cardinality({i \in 1..Len(steps) :
                 steps[i].step \in PaymentSteps /\ steps[i].res = "ok"}) = 1
      /\ checkout.placed => checkout.shipping # "none" /\ checkout.payment # "none"
      /\ checkout.pc = "returned" => Len(steps) = 8 /\ checkout.verified

\* a checkout called with its defaults returned after all eight steps
C30_Witness ==
  /\ checkout.pc = "returned" /\ checkout.given = << Unset, Unset >>
  /\ checkout.shipping = "flatrate" /\ checkout.payment = "checkmo"
  /\ checkout.placed /\ checkout.verified

====
